---- MODULE Spec2Model ----
(***************************************************************************)
(* Model of the electrs indexing core: Store (txstore / history), the      *)
(* in-memory block-hash sets and header list, and Indexer::update with its *)
(* add pass and index pass.                                                *)
(*                                                                         *)
(* The node serves one chain; the block at height h has hash h + 1 and the *)
(* null hash is 0.  A process termination (Crash) drops the in-memory      *)
(* state; the databases keep every batch DB::write has returned from       *)
(* (closing a RocksDB handle flushes its memtables).  Loss of WAL-less     *)
(* writes on a hard kill is not modelled.                                  *)
(***************************************************************************)
EXTENDS Integers, Sequences, FiniteSets, TLC

\* ---------------------------------------------------------------- bounds
MaxHeight == 2
MaxBatch == 2

\* ------------------------------------------------------------- constants
DB_VERSION == 1
NullHash == 0
\* vout of the null outpoint (u32::MAX in the program; the largest integer here)
NullVout == 2147483647

Indexers == {"A", "B"}

\* -------------------------------------------------------- small helpers
Range(s) == {s[k] : k \in 1..Len(s)}

Min(a, b) == IF a < b THEN a ELSE b

Last(s) == s[Len(s)]

U16(x) == x % 65536

\* ------------------------------------------------------------- the node
\* The chain the node serves: block hash of the block at a height.
HashAt(h) == h + 1

Hashes == {HashAt(h) : h \in 0..MaxHeight}

\* Blocks the node knows outside its best chain: a stale branch that forks off
\* the block at height 0, and a chain that starts from a genesis of its own.
StaleHash(h) == 10 + HashAt(h)

ForeignHash(h) == 20 + HashAt(h)

NodeHashes ==
    Hashes \cup {StaleHash(h) : h \in 1..MaxHeight} \cup {ForeignHash(h) : h \in 0..MaxHeight}

\* BlockHeader of a block (only prev_blockhash matters here).
NodeHeader(hash) ==
    [hash |-> hash,
     prev_blockhash |-> IF hash = ForeignHash(0) THEN NullHash
                        ELSE IF hash = StaleHash(1) THEN HashAt(0)
                        ELSE hash - 1]

CoinbaseTxid(hash) == 10 * hash + 1

SpendTxid(hash) == 10 * hash + 2

\* script_pubkey 0 stands for an OP_RETURN script (provably unspendable).
CoinbaseTx(hash) ==
    [txid |-> CoinbaseTxid(hash),
     input |-> << [txid |-> 0, vout |-> NullVout] >>,
     output |-> << [script_pubkey |-> hash, value |-> 50] >>]

SpendTx(hash) ==
    [txid |-> SpendTxid(hash),
     input |-> << [txid |-> CoinbaseTxid(hash - 1), vout |-> 0] >>,
     output |-> << [script_pubkey |-> 100 + hash, value |-> 49],
                   [script_pubkey |-> 0, value |-> 0] >>]

\* The block the node returns for getblock(hash).
NodeBlock(hash) ==
    [header |-> NodeHeader(hash),
     txdata |-> IF hash = HashAt(0) THEN << CoinbaseTx(hash) >>
                ELSE << CoinbaseTx(hash), SpendTx(hash) >>]

\* ------------------------------------------------------------ predicates
\* mutant: every output counts as spendable
is_spendable_always(txout) == TRUE

is_spendable(txout) == txout.script_pubkey # 0

has_prevout(txin) == ~(txin.txid = 0 /\ txin.vout = NullVout)

compute_script_hash(script) == << "sha256", script >>

\* ------------------------------------------------------------ row codecs
DBRow(key, value) == [key |-> key, value |-> value]

\* the value stands for the consensus serialization of the transaction
TxRow(tx) == DBRow(<< "T", tx.txid >>, << tx.txid, Len(tx.input), Len(tx.output) >>)

TxConfRow(tx, blockhash) == DBRow(<< "C", tx.txid, blockhash >>, << >>)

TxOutRow(txid, vout, txout) ==
    DBRow(<< "O", txid, U16(vout) >>, << txout.script_pubkey, txout.value >>)

TxOutRowKey(outpoint) == << "O", outpoint.txid, U16(outpoint.vout) >>

BlockRowHeader(b) ==
    DBRow(<< "B", b.entry.hash >>, << b.block.header.prev_blockhash >>)

BlockRowTxids(hash, txids) == DBRow(<< "X", hash >>, txids)

BlockRowMeta(hash, b) == DBRow(<< "M", hash >>, << Len(b.block.txdata) >>)

BlockRowDone(hash) == DBRow(<< "D", hash >>, << >>)

TxHistoryRowFunding(script, height, txid, vout, value) ==
    DBRow(<< "H", compute_script_hash(script), height, "F", txid, U16(vout), value >>,
          << >>)

TxHistoryRowSpending(script, height, txid, vin, prev_txid, prev_vout, value) ==
    DBRow(<< "H", compute_script_hash(script), height, "S", txid, U16(vin),
             prev_txid, U16(prev_vout), value >>, << >>)

TxEdgeRow(funding_txid, funding_vout, spending_txid, spending_vin) ==
    DBRow(<< "S", funding_txid, U16(funding_vout), spending_txid, U16(spending_vin) >>,
          << >>)

\* ------------------------------------------------------------------- DB
\* A database is a set of rows with pairwise distinct keys.
\* Option<T>: None is the empty sequence, Some(v) the one-element sequence.
None == << >>

Some(v) == << v >>

DBGet(db, key) ==
    IF \E r \in db : r.key = key
    THEN Some((CHOOSE r \in db : r.key = key).value)
    ELSE None

DBPut(db, key, value) == {r \in db : r.key # key} \cup {DBRow(key, value)}

\* DB::write: one atomic batch of puts.
DBWrite(db, rows) == {r \in db : \A n \in rows : n.key # r.key} \cup rows

\* iter_scan(prefix) for a one-byte prefix.
IterScan(db, code) == {r \in db : r.key[1] = code}

\* mutant: the light_mode byte is not appended
CompatibilityBytesVersionOnly(light) == << DB_VERSION >>

CompatibilityBytes(light) ==
    IF light THEN << DB_VERSION, 1 >> ELSE << DB_VERSION >>

\* DB::open followed by verify_compatibility (panics on a mismatch).
CompatibilityOk(db, light) ==
    \/ DBGet(db, << "V" >>) = None
    \/ DBGet(db, << "V" >>) = Some(CompatibilityBytes(light))

DBOpen(db, light) ==
    IF DBGet(db, << "V" >>) = None
    THEN DBPut(db, << "V" >>, CompatibilityBytes(light))
    ELSE db

\* ------------------------------------------------------------- add pass
\* mutant: the raw transaction is stored in light mode too
add_transaction_with_raw(tx, blockhash, iconfig) ==
    { TxConfRow(tx, blockhash), TxRow(tx) }
    \cup { TxOutRow(tx.txid, k - 1, tx.output[k]) :
             k \in {j \in 1..Len(tx.output) : is_spendable(tx.output[j])} }

add_transaction(tx, blockhash, iconfig) ==
    { TxConfRow(tx, blockhash) }
    \cup (IF ~iconfig.light_mode THEN { TxRow(tx) } ELSE {})
    \cup { TxOutRow(tx.txid, k - 1, tx.output[k]) :
             k \in {j \in 1..Len(tx.output) : is_spendable(tx.output[j])} }

\* mutant: the add pass forgets the done marker
add_block_no_done(b, iconfig) ==
    UNION { add_transaction(b.block.txdata[k], b.entry.hash, iconfig) :
            k \in 1..Len(b.block.txdata) }
    \cup (IF ~iconfig.light_mode
          THEN { BlockRowTxids(b.entry.hash,
                               [k \in 1..Len(b.block.txdata) |-> b.block.txdata[k].txid]),
                 BlockRowMeta(b.entry.hash, b) }
          ELSE {})
    \cup { BlockRowHeader(b) }

add_block(b, iconfig) ==
    UNION { add_transaction(b.block.txdata[k], b.entry.hash, iconfig) :
            k \in 1..Len(b.block.txdata) }
    \cup (IF ~iconfig.light_mode
          THEN { BlockRowTxids(b.entry.hash,
                               [k \in 1..Len(b.block.txdata) |-> b.block.txdata[k].txid]),
                 BlockRowMeta(b.entry.hash, b) }
          ELSE {})
    \cup { BlockRowHeader(b), BlockRowDone(b.entry.hash) }

add_blocks(block_entries, iconfig) ==
    UNION { add_block(block_entries[k], iconfig) : k \in 1..Len(block_entries) }

\* ----------------------------------------------------------- index pass
TxInputs(b) ==
    UNION { Range(b.block.txdata[k].input) : k \in 1..Len(b.block.txdata) }

get_previous_txos(block_entries) ==
    { txin \in UNION { TxInputs(block_entries[k]) : k \in 1..Len(block_entries) } :
      has_prevout(txin) }

lookup_txo(txstore_db, outpoint) == DBGet(txstore_db, TxOutRowKey(outpoint))

\* mutant: a missing outpoint is always left out silently
lookup_txos_never_panics(txstore_db, outpoints, allow_missing) == FALSE

\* lookup_txos(..., allow_missing): panics on a missing outpoint unless allowed.
lookup_txos_panics(txstore_db, outpoints, allow_missing) ==
    ~allow_missing /\ \E o \in outpoints : lookup_txo(txstore_db, o) = None

lookup_txos(txstore_db, outpoints) ==
    [o \in {p \in outpoints : lookup_txo(txstore_db, p) # None} |->
        LET val == lookup_txo(txstore_db, o)[1]
        IN  [script_pubkey |-> val[1], value |-> val[2]]]

\* mutant: the outputs of a transaction get no Funding row
index_transaction_spending_only(tx, confirmed_height, previous_txos_map, iconfig) ==
    UNION {
        LET txi == tx.input[k]
            prev_txo == previous_txos_map[txi]
        IN  { TxHistoryRowSpending(prev_txo.script_pubkey, confirmed_height, tx.txid,
                                   k - 1, txi.txid, txi.vout, prev_txo.value),
              TxEdgeRow(txi.txid, txi.vout, tx.txid, k - 1) } :
        k \in {j \in 1..Len(tx.input) : has_prevout(tx.input[j])} }

index_transaction(tx, confirmed_height, previous_txos_map, iconfig) ==
    { TxHistoryRowFunding(tx.output[k].script_pubkey, confirmed_height,
                          tx.txid, k - 1, tx.output[k].value) :
        k \in {j \in 1..Len(tx.output) :
                 is_spendable(tx.output[j]) \/ iconfig.index_unspendables} }
    \cup UNION {
        LET txi == tx.input[k]
            prev_txo == previous_txos_map[txi]
        IN  { TxHistoryRowSpending(prev_txo.script_pubkey, confirmed_height, tx.txid,
                                   k - 1, txi.txid, txi.vout, prev_txo.value),
              TxEdgeRow(txi.txid, txi.vout, tx.txid, k - 1) } :
        k \in {j \in 1..Len(tx.input) : has_prevout(tx.input[j])} }

\* index_transaction panics on an input whose previous output is not in the map.
index_transaction_panics(tx, previous_txos_map) ==
    \E k \in 1..Len(tx.input) :
        has_prevout(tx.input[k]) /\ tx.input[k] \notin DOMAIN previous_txos_map

\* mutant: the index pass forgets the done marker
index_block_no_done(b, previous_txos_map, iconfig) ==
    UNION { index_transaction(b.block.txdata[k], b.entry.height, previous_txos_map, iconfig) :
            k \in 1..Len(b.block.txdata) }

index_block(b, previous_txos_map, iconfig) ==
    UNION { index_transaction(b.block.txdata[k], b.entry.height, previous_txos_map, iconfig) :
            k \in 1..Len(b.block.txdata) }
    \cup { BlockRowDone(b.entry.hash) }

index_blocks(block_entries, previous_txos_map, iconfig) ==
    UNION { index_block(block_entries[k], previous_txos_map, iconfig) :
            k \in 1..Len(block_entries) }

\* ----------------------------------------------------------- HeaderList
\* A HeaderEntry is [height, hash, prev_blockhash]; the list is ordered by
\* height, the hash-to-height map and the tip are read off the list.
block_hash(header) == header.hash

HeaderEntry(height, header) ==
    [height |-> height, hash |-> block_hash(header),
     prev_blockhash |-> header.prev_blockhash]

HeaderListEmpty == << >>

HeaderListTip(headers) ==
    IF headers = << >> THEN NullHash ELSE Last(headers).hash

header_by_blockhash(headers, hash) ==
    IF \E k \in 1..Len(headers) : headers[k].hash = hash
    THEN Some(headers[CHOOSE k \in 1..Len(headers) : headers[k].hash = hash])
    ELSE None

\* order(): "non-connecting headers" when the fork point is unknown.
OrderFails(headers, new_headers) ==
    /\ new_headers # << >>
    /\ new_headers[1].prev_blockhash # NullHash
    /\ header_by_blockhash(headers, new_headers[1].prev_blockhash) = None

Order(headers, new_headers) ==
    IF new_headers = << >> THEN << >>
    ELSE LET prev == new_headers[1].prev_blockhash
             first == IF prev = NullHash THEN 0
                      ELSE header_by_blockhash(headers, prev)[1].height + 1
         IN  [k \in 1..Len(new_headers) |-> HeaderEntry(first + k - 1, new_headers[k])]

\* apply() fails when the new entries do not connect to the list.
ApplyFails(headers, new_entries) ==
    /\ new_entries # << >>
    /\ \/ new_entries[1].height > Len(headers)
       \/ new_entries[1].prev_blockhash #
            (IF new_entries[1].height = 0 THEN NullHash
             ELSE headers[new_entries[1].height].hash)

\* mutant: the new entries are appended without truncating the list
ApplyNoTruncate(headers, new_entries) == headers \o new_entries

\* apply(): truncate above the fork point, append.
Apply(headers, new_entries) ==
    IF new_entries = << >> THEN headers
    ELSE SubSeq(headers, 1, new_entries[1].height) \o new_entries

RECURSIVE ChainBack(_, _)
ChainBack(headers_map, hash) ==
    IF hash \notin DOMAIN headers_map THEN << >>
    ELSE Append(ChainBack(headers_map, headers_map[hash].prev_blockhash),
                headers_map[hash])

\* HeaderList::new(headers_map, tip_hash): walk back from the tip.
HeaderListNew(headers_map, tip_hash) ==
    LET chain == ChainBack(headers_map, tip_hash)
    IN  [k \in 1..Len(chain) |-> HeaderEntry(k - 1, chain[k])]

\* --------------------------------------------------------------- Daemon
\* mutant: the walk does not stop at a known block hash
RECURSIVE WalkBackToNull(_, _)
WalkBackToNull(indexed_headers, blockhash) ==
    IF blockhash = NullHash THEN << >>
    ELSE Append(WalkBackToNull(indexed_headers, NodeHeader(blockhash).prev_blockhash),
                NodeHeader(blockhash))

\* mutant: the collected headers are not reversed
RECURSIVE WalkBackTipFirst(_, _)
WalkBackTipFirst(indexed_headers, blockhash) ==
    IF blockhash = NullHash THEN << >>
    ELSE IF header_by_blockhash(indexed_headers, blockhash) # None THEN << >>
    ELSE << NodeHeader(blockhash) >>
         \o WalkBackTipFirst(indexed_headers, NodeHeader(blockhash).prev_blockhash)

RECURSIVE WalkBack(_, _)
WalkBack(indexed_headers, blockhash) ==
    IF blockhash = NullHash THEN << >>
    ELSE IF header_by_blockhash(indexed_headers, blockhash) # None THEN << >>
    ELSE Append(WalkBack(indexed_headers, NodeHeader(blockhash).prev_blockhash),
                NodeHeader(blockhash))

\* mutant: the height range excludes the tip
get_all_headers_short(tip) == [k \in 1..(tip - 1) |-> NodeHeader(HashAt(k - 1))]

\* get_all_headers: the headers at heights 0..height(tip).
get_all_headers(tip) == [k \in 1..tip |-> NodeHeader(HashAt(k - 1))]

\* Daemon::get_new_headers: ascending height, the tip last.
get_new_headers(indexed_headers, bestblockhash) ==
    IF indexed_headers = HeaderListEmpty THEN get_all_headers(bestblockhash)
    ELSE WalkBack(indexed_headers, bestblockhash)

\* ---------------------------------------------------------------- Store
load_blockhashes(db, code) == {r.key[2] : r \in IterScan(db, code)}

load_blockheaders(db) ==
    [h \in {r.key[2] : r \in IterScan(db, "B")} |->
        [hash |-> h, prev_blockhash |-> DBGet(db, << "B", h >>)[1][1]]]

\* Store::open, line 35 and line 39: the two sets of done markers.
StoreOpenAdded(txstore_db, history_db) == load_blockhashes(txstore_db, "D")

\* mutant: both sets are loaded from txstore
StoreOpenIndexedFromTxstore(txstore_db, history_db) == load_blockhashes(txstore_db, "D")

StoreOpenIndexed(txstore_db, history_db) == load_blockhashes(history_db, "D")

StoreOpenHeaders(db) ==
    IF DBGet(db, << "t" >>) # None
    THEN HeaderListNew(load_blockheaders(db), DBGet(db, << "t" >>)[1][1])
    ELSE HeaderListEmpty

\* ---------------------------------------------------------------- state
VARIABLES
    config,               \* IndexerConfig: light_mode, index_unspendables
    best,                 \* height of the node's best block
    up,                   \* a process has the Store open
    txstore, history,     \* contents of the two databases
    txstore_ac, history_ac, \* auto-compactions enabled on the open handle
    added_blockhashes, indexed_blockhashes, indexed_headers,
    pc,                   \* position of each Indexer inside update()
    tip, new_headers, to_add, to_index,  \* locals of update()
    blocks,               \* hashes of the batch last handed to add / index
    ret,                  \* what the last completed update() returned
    last_exit             \* where indexer "A" stood when the process last ended

\* The daemon client (src/src/daemon, src/src/signal).
VARIABLES
    node,                 \* what the node reports: version, pruned, ibd, blocks, headers
    faults,               \* failures the node and the network have produced so far
    hpc,                  \* position of the main thread inside Daemon::new
    new_ret,              \* what Daemon::new returned
    last_info,            \* the most recent getblockchaininfo reply Daemon::new read
    message_id,           \* Daemon.message_id: value of the Counter
    conn_lock,            \* holder of Daemon.conn (Mutex<Connection>)
    conn,                 \* the Connection: its generation and the request on the wire
    dpc,                  \* position of each caller inside retry_request_batch
    rq,                   \* arguments and locals of each caller's retry_request_batch
    outcome,              \* what each caller's retry_request_batch returned
    sigchan,              \* signals waiting in the Waiter's channel
    ws,                   \* each caller's call of Waiter::wait
    calls                 \* request batches started so far

\* The header walk (Daemon::get_new_headers) and the block fetcher
\* (src/src/indexer/fetch.rs).
VARIABLES
    walk,                 \* a call of Daemon::get_new_headers: its tip and what it returned
    lookup,               \* a call of lookup_txos: its arguments and how it ended
    fetch_headers,        \* new_headers handed to bitcoind_fetcher
    worker,               \* the "bitcoind_fetcher" thread: position, headers consumed, batch built
    chan,                 \* batches buffered in the sync_channel
    consumer,             \* Fetcher::each: position and the batch inside the callback
    sent,                 \* batches SyncSender::send has accepted, in order
    delivered             \* batches Fetcher::each has passed to the callback, in order

\* One database at the level of key bytes (src/src/store/db.rs) and calls of
\* its scans.
VARIABLES
    kdb,                  \* rows of the database, keys and values as byte strings
    kput,                 \* the TxHistoryRow values whose rows were written
    scan,                 \* the last scan: its arguments and the rows it yielded
    orows,                \* the last vector of O rows passed to DB::write, with the
                          \* transaction and the output indices the rows were made for
    recvd,                \* the last framed response given to Connection::recv and
                          \* how recv ended on it
    sndr                  \* the call chan.sender() of bitcoind_fetcher: its position
                          \* and the number of frames of sender() on the stack

Callers == {"t1", "t2"}

NoRequest ==
    [method |-> "none", params |-> << >>, id |-> 0, chunk |-> 0, results |-> << >>,
     attempts |-> 0, reconnects |-> 0, wire_requests |-> 0, sent |-> << >>,
     warmups |-> 0, other_faults |-> 0, last |-> "none"]

NoWait == [st |-> "none", remaining |-> 0, accept_sigusr |-> FALSE, duration |-> 0,
           elapsed |-> 0, usr1 |-> 0, sig |-> 0, via |-> "none"]

IdleConn == [gen |-> 0, request |-> << >>]

ivars == << config, best, up, txstore, history, txstore_ac, history_ac,
            added_blockhashes, indexed_blockhashes, indexed_headers,
            pc, tip, new_headers, to_add, to_index, blocks, ret, last_exit >>

dvars == << node, faults, hpc, new_ret, last_info, message_id, conn_lock, conn,
            dpc, rq, outcome, sigchan, ws, calls >>

kvars == << kdb, kput, scan, orows, recvd, sndr >>

fvars == << walk, lookup, fetch_headers, worker, chan, consumer, sent, delivered, kvars >>

vars == << ivars, dvars, fvars >>

\* No header walk and no Fetcher exist.  worker.pos: headers the loop has
\* taken; worker.miscount: pos of the chunk for which the node returned a wrong
\* number of blocks (-1: none); worker.term: the thread has ended.
\* An empty byte-level database and no scan.
KeysQuiet ==
    /\ kdb = {}
    /\ kput = {}
    /\ scan = [op |-> "none", prefix |-> << >>, start_at |-> << >>, rows |-> << >>]
    /\ orows = [txid |-> 0, vouts |-> << >>, rows |-> << >>]
    /\ recvd = [content_length |-> [kind |-> "absent", val |-> 0], body |-> None,
                outcome |-> "none",
                wrapped |-> FALSE]
    /\ sndr = [st |-> "idle", frames |-> 0]

FetcherQuiet ==
    /\ KeysQuiet
    /\ walk = [st |-> "none", tip |-> NullHash, result |-> << >>]
    /\ lookup = [st |-> "none", outpoints |-> {}, allow_missing |-> FALSE, result |-> << >>]
    /\ fetch_headers = << >>
    /\ worker = [pc |-> "none", pos |-> 0, block_entries |-> << >>, miscount |-> -1,
                 term |-> FALSE]
    /\ chan = << >>
    /\ consumer = [pc |-> "none", item |-> << >>]
    /\ sent = << >>
    /\ delivered = << >>

\* The daemon client before Daemon::new is called, with a node that is ready.
DaemonQuiet ==
    /\ node = [version |-> 160000, pruned |-> FALSE, ibd |-> "absent",
               blocks |-> 0, headers |-> 0]
    /\ faults = 0
    /\ hpc = "none"
    /\ new_ret = << >>
    /\ last_info = << >>
    /\ message_id = 0
    /\ conn_lock = "free"
    /\ conn = IdleConn
    /\ dpc = [c \in Callers |-> "idle"]
    /\ rq = [c \in Callers |-> NoRequest]
    /\ outcome = [c \in Callers |-> << >>]
    /\ sigchan = << >>
    /\ ws = [c \in Callers |-> NoWait]
    /\ calls = 0

IndexerInit ==
    /\ config \in [light_mode : BOOLEAN, index_unspendables : BOOLEAN]
    /\ best = 0
    /\ up = TRUE
    /\ txstore = DBOpen({}, config.light_mode)
    /\ history = DBOpen({}, config.light_mode)
    /\ txstore_ac = FALSE
    /\ history_ac = FALSE
    /\ added_blockhashes = {}
    /\ indexed_blockhashes = {}
    /\ indexed_headers = HeaderListEmpty
    /\ pc = [i \in Indexers |-> "idle"]
    /\ tip = [i \in Indexers |-> NullHash]
    /\ new_headers = [i \in Indexers |-> << >>]
    /\ to_add = [i \in Indexers |-> << >>]
    /\ to_index = [i \in Indexers |-> << >>]
    /\ blocks = [i \in Indexers |-> << >>]
    /\ ret = [i \in Indexers |-> None]
    /\ last_exit = "none"

Init == IndexerInit /\ DaemonQuiet /\ FetcherQuiet

\* -------------------------------------------------------------- Indexer
headers_to_add(hs, added) ==
    SelectSeq(hs, LAMBDA he : he.hash \notin added)

\* mutant: the index pass does not filter
headers_to_index_all(hs, indexed) == hs

headers_to_index(hs, indexed) ==
    SelectSeq(hs, LAMBDA he : he.hash \notin indexed)

\* mutant: only the first block of the batch is recorded
ExtendAddedFirstOnly(added, entries) == added \cup {entries[1].hash}

\* Indexer::add, lines 132-136: extend added_blockhashes with the batch.
ExtendAdded(added, entries) == added \cup {entries[k].hash : k \in 1..Len(entries)}

\* What the fetcher yields for a slice of header entries.
BlockEntries(entries) ==
    [k \in 1..Len(entries) |-> [entry |-> entries[k], block |-> NodeBlock(entries[k].hash)]]

EntryHashes(entries) == [k \in 1..Len(entries) |-> entries[k].hash]

Rest(s, n) == SubSeq(s, n + 1, Len(s))

\* The process ends (panic, Interrupt error, kill): in-memory state is gone.
ProcessExit ==
    /\ up' = FALSE
    /\ txstore_ac' = FALSE
    /\ history_ac' = FALSE
    /\ added_blockhashes' = {}
    /\ indexed_blockhashes' = {}
    /\ indexed_headers' = HeaderListEmpty
    /\ pc' = [i \in Indexers |-> "idle"]
    /\ tip' = [i \in Indexers |-> NullHash]
    /\ new_headers' = [i \in Indexers |-> << >>]
    /\ to_add' = [i \in Indexers |-> << >>]
    /\ to_index' = [i \in Indexers |-> << >>]
    /\ blocks' = [i \in Indexers |-> << >>]
    /\ ret' = [i \in Indexers |-> None]
    /\ last_exit' =
          IF pc["A"] = "add" /\ to_add["A"] = << >> /\ blocks["A"] # << >>
          THEN "between"
          ELSE pc["A"]
    /\ UNCHANGED << dvars, fvars, config, best >>

\* update(), lines 62-66: getbestblockhash, get_new_headers, headers_to_add.
UpdateStart(i) ==
    /\ up
    /\ pc[i] = "idle"
    /\ LET bestblockhash == HashAt(best)
           hs == get_new_headers(indexed_headers, bestblockhash)
       IN  IF OrderFails(indexed_headers, hs)
           THEN ProcessExit /\ UNCHANGED << txstore, history >>
           ELSE /\ tip' = [tip EXCEPT ![i] = bestblockhash]
                /\ new_headers' = [new_headers EXCEPT ![i] = Order(indexed_headers, hs)]
                /\ to_add' = [to_add EXCEPT
                                ![i] = headers_to_add(new_headers'[i], added_blockhashes)]
                /\ to_index' = [to_index EXCEPT ![i] = << >>]
                /\ blocks' = [blocks EXCEPT ![i] = << >>]
                /\ pc' = [pc EXCEPT ![i] = "add"]
                /\ UNCHANGED << dvars, fvars, config, best, up, txstore, history, txstore_ac,
                                history_ac, added_blockhashes, indexed_blockhashes,
                                indexed_headers, ret, last_exit >>

\* Indexer::add on the next batch of the fetcher.  A batch is a chunk of at
\* most MaxBatch entries: chunks(100) in bitcoind_fetcher, one batch per blk
\* file (of any size) in the blk-file fetcher.
AddBatch(i) ==
    /\ up
    /\ pc[i] = "add"
    /\ to_add[i] # << >>
    /\ \E n \in 1..Min(MaxBatch, Len(to_add[i])) :
         LET entries == SubSeq(to_add[i], 1, n)
             rows == add_blocks(BlockEntries(entries), config)
         IN  /\ txstore' = DBWrite(txstore, rows)
             /\ added_blockhashes' = ExtendAdded(added_blockhashes, entries)
             /\ blocks' = [blocks EXCEPT ![i] = EntryHashes(entries)]
             /\ to_add' = [to_add EXCEPT ![i] = Rest(to_add[i], n)]
    /\ UNCHANGED << dvars, fvars, config, best, up, history, txstore_ac, history_ac,
                    indexed_blockhashes, indexed_headers, pc, tip, new_headers,
                    to_index, ret, last_exit >>

\* mutant: the index pass starts before the add fetcher is drained
AddDoneEarly(i) ==
    /\ up
    /\ pc[i] = "add"
    /\ txstore_ac' = TRUE
    /\ to_index' = [to_index EXCEPT
                      ![i] = headers_to_index(new_headers[i], indexed_blockhashes)]
    /\ blocks' = [blocks EXCEPT ![i] = << >>]
    /\ pc' = [pc EXCEPT ![i] = "index"]
    /\ UNCHANGED << dvars, fvars, config, best, up, txstore, history, history_ac,
                    added_blockhashes, indexed_blockhashes, indexed_headers,
                    tip, new_headers, to_add, ret, last_exit >>

\* update(), lines 76-78: the add fetcher is drained; start_auto_compactions
\* on txstore, then headers_to_index.
AddDone(i) ==
    /\ up
    /\ pc[i] = "add"
    /\ to_add[i] = << >>
    /\ txstore_ac' = TRUE
    /\ to_index' = [to_index EXCEPT
                      ![i] = headers_to_index(new_headers[i], indexed_blockhashes)]
    /\ blocks' = [blocks EXCEPT ![i] = << >>]
    /\ pc' = [pc EXCEPT ![i] = "index"]
    /\ UNCHANGED << dvars, fvars, config, best, up, txstore, history, history_ac,
                    added_blockhashes, indexed_blockhashes, indexed_headers,
                    tip, new_headers, to_add, ret, last_exit >>

\* mutant: index does not test added_blockhashes
IndexPanicsOnMissingTxoOnly(block_entries) ==
    lookup_txos_panics(txstore, get_previous_txos(block_entries), FALSE)

\* Indexer::index panics: a missing previous output, or a block not added.
IndexPanics(block_entries) ==
    \/ lookup_txos_panics(txstore, get_previous_txos(block_entries), FALSE)
    \/ \E k \in 1..Len(block_entries) :
          block_entries[k].entry.hash \notin added_blockhashes

\* Indexer::index on the next batch of the fetcher.
IndexBatch(i) ==
    /\ up
    /\ pc[i] = "index"
    /\ to_index[i] # << >>
    /\ \E n \in 1..Min(MaxBatch, Len(to_index[i])) :
         LET entries == SubSeq(to_index[i], 1, n)
             block_entries == BlockEntries(entries)
             previous_txos_map ==
                 lookup_txos(txstore, get_previous_txos(block_entries))
         IN  IF IndexPanics(block_entries)
             THEN ProcessExit /\ UNCHANGED << txstore, history >>
             ELSE /\ history' = DBWrite(history,
                                  index_blocks(block_entries, previous_txos_map, config))
                  /\ blocks' = [blocks EXCEPT ![i] = EntryHashes(entries)]
                  /\ to_index' = [to_index EXCEPT ![i] = Rest(to_index[i], n)]
                  /\ UNCHANGED << dvars, fvars, config, best, up, txstore, txstore_ac, history_ac,
                                  added_blockhashes, indexed_blockhashes,
                                  indexed_headers, pc, tip, new_headers, to_add,
                                  ret, last_exit >>

\* update(), from line 85: the index fetcher is drained; start_auto_compactions
\* on history, write the tip marker, apply new_headers, return the tip.
Finish(i) ==
    /\ up
    /\ pc[i] = "index"
    /\ to_index[i] = << >>
    /\ txstore' = DBPut(txstore, << "t" >>, << tip[i] >>)
    /\ UNCHANGED history
    /\ IF ApplyFails(indexed_headers, new_headers[i])
       THEN ProcessExit
       ELSE /\ history_ac' = TRUE
            /\ indexed_headers' = Apply(indexed_headers, new_headers[i])
            /\ ret' = [ret EXCEPT ![i] = Some(tip[i])]
            /\ pc' = [pc EXCEPT ![i] = "idle"]
            /\ UNCHANGED << dvars, fvars, config, best, up, txstore_ac, added_blockhashes,
                            indexed_blockhashes, tip, new_headers, to_add, to_index,
                            blocks, last_exit >>

\* The process is interrupted or killed at any point.
Crash ==
    /\ up
    /\ ProcessExit
    /\ UNCHANGED << txstore, history >>

\* Store::open on the databases left on disk.
StoreOpen ==
    /\ ~up
    /\ CompatibilityOk(txstore, config.light_mode)
    /\ CompatibilityOk(history, config.light_mode)
    /\ up' = TRUE
    /\ txstore' = DBOpen(txstore, config.light_mode)
    /\ history' = DBOpen(history, config.light_mode)
    /\ added_blockhashes' = StoreOpenAdded(txstore', history')
    /\ indexed_blockhashes' = StoreOpenIndexed(txstore', history')
    /\ indexed_headers' = StoreOpenHeaders(txstore')
    /\ UNCHANGED << dvars, fvars, config, best, txstore_ac, history_ac, pc, tip, new_headers,
                    to_add, to_index, blocks, ret, last_exit >>

\* The node connects the next block of its chain.
NodeMine ==
    /\ best < MaxHeight
    /\ best' = best + 1
    /\ UNCHANGED << dvars, fvars, config, up, txstore, history, txstore_ac, history_ac,
                    added_blockhashes, indexed_blockhashes, indexed_headers,
                    pc, tip, new_headers, to_add, to_index, blocks, ret, last_exit >>

\* Daemon::get_new_headers(&indexed_headers, tip) on a non-empty header list,
\* for any block the node may report as its best block; every getblockheader
\* request succeeds.
GetNewHeaders ==
    /\ up
    /\ indexed_headers # HeaderListEmpty
    /\ \E bestblockhash \in NodeHashes :
          walk' = [st |-> "ok", tip |-> bestblockhash,
                   result |-> get_new_headers(indexed_headers, bestblockhash)]
    /\ UNCHANGED << ivars, dvars, kvars, lookup, fetch_headers, worker, chan, consumer, sent, delivered >>

\* A getblockheader request of the walk fails: the error is returned (line 211).
GetNewHeadersFails ==
    /\ up
    /\ indexed_headers # HeaderListEmpty
    /\ \E bestblockhash \in NodeHashes :
          /\ header_by_blockhash(indexed_headers, bestblockhash) = None
          /\ walk' = [st |-> "err", tip |-> bestblockhash, result |-> << >>]
    /\ UNCHANGED << ivars, dvars, kvars, lookup, fetch_headers, worker, chan, consumer, sent, delivered >>

\* One Indexer on the Store (src/bin/electrs.rs).
Next ==
    \/ UpdateStart("A")
    \/ AddBatch("A")
    \/ AddDone("A")
    \/ IndexBatch("A")
    \/ Finish("A")
    \/ Crash
    \/ StoreOpen
    \/ NodeMine

Spec == Init /\ [][Next]_vars

\* Store::open on databases one of which holds other compatibility bytes:
\* verify_compatibility panics (db.rs:179-181) and nothing is written.
StoreOpenRejected ==
    /\ ~up
    /\ ~(CompatibilityOk(txstore, config.light_mode)
          /\ CompatibilityOk(history, config.light_mode))
    /\ last_exit' = "incompatible"
    /\ UNCHANGED << dvars, fvars, config, best, up, txstore, history, txstore_ac,
                    history_ac, added_blockhashes, indexed_blockhashes, indexed_headers,
                    pc, tip, new_headers, to_add, to_index, blocks, ret >>

\* Between two runs the operator switches light_mode in the configuration.
ConfigChange ==
    /\ ~up
    /\ config' = [config EXCEPT !.light_mode = ~@]
    /\ UNCHANGED << dvars, fvars, best, up, txstore, history, txstore_ac, history_ac,
                    added_blockhashes, indexed_blockhashes, indexed_headers,
                    pc, tip, new_headers, to_add, to_index, blocks, ret, last_exit >>

\* Before the first run: the database directories are empty.
InitReopen ==
    /\ config \in [light_mode : BOOLEAN, index_unspendables : BOOLEAN]
    /\ best = 0
    /\ up = FALSE
    /\ txstore = {}
    /\ history = {}
    /\ txstore_ac = FALSE
    /\ history_ac = FALSE
    /\ added_blockhashes = {}
    /\ indexed_blockhashes = {}
    /\ indexed_headers = HeaderListEmpty
    /\ pc = [i \in Indexers |-> "idle"]
    /\ tip = [i \in Indexers |-> NullHash]
    /\ new_headers = [i \in Indexers |-> << >>]
    /\ to_add = [i \in Indexers |-> << >>]
    /\ to_index = [i \in Indexers |-> << >>]
    /\ blocks = [i \in Indexers |-> << >>]
    /\ ret = [i \in Indexers |-> None]
    /\ last_exit = "none"
    /\ DaemonQuiet
    /\ FetcherQuiet

\* Runs of the server on one database directory, with light_mode switched
\* between runs.
NextReopen ==
    \/ Next
    \/ StoreOpenRejected
    \/ ConfigChange

SpecReopen == InitReopen /\ [][NextReopen]_vars

\* The outpoints of the outputs of the best chain's transactions.
ChainOutpoints ==
    UNION { UNION { { [txid |-> NodeBlock(h).txdata[k].txid, vout |-> j - 1] :
                      j \in 1..Len(NodeBlock(h).txdata[k].output) } :
                    k \in 1..Len(NodeBlock(h).txdata) } :
            h \in Hashes }

\* lookup_txos(&txstore, &outpoints, allow_missing) called for the outpoints
\* of the chain, added or not, where index() calls it: it panics or returns
\* the map.
LookupTxos ==
    /\ up
    /\ pc["A"] = "index"
    /\ \E outpoints \in {ChainOutpoints}, allow_missing \in BOOLEAN :
          /\ lookup' =
                IF lookup_txos_panics(txstore, outpoints, allow_missing)
                THEN [st |-> "panic", outpoints |-> outpoints,
                      allow_missing |-> allow_missing, result |-> << >>]
                ELSE [st |-> "ok", outpoints |-> outpoints,
                      allow_missing |-> allow_missing,
                      result |-> lookup_txos(txstore, outpoints)]
    /\ UNCHANGED << ivars, dvars, kvars, walk, fetch_headers, worker, chan, consumer, sent,
                    delivered >>

\* Between two runs the txstore loses the O row of an output (a damaged
\* database); at most one row is missing at a time.
TxstoreDamage ==
    /\ ~up
    /\ \A h \in load_blockhashes(txstore, "D") :
          \A k \in 1..Len(NodeBlock(h).txdata) :
             lookup_txo(txstore, [txid |-> NodeBlock(h).txdata[k].txid, vout |-> 0]) # None
    /\ \E r \in IterScan(txstore, "O") : txstore' = txstore \ {r}
    /\ UNCHANGED << dvars, fvars, config, best, up, history, txstore_ac, history_ac,
                    added_blockhashes, indexed_blockhashes, indexed_headers,
                    pc, tip, new_headers, to_add, to_index, blocks, ret, last_exit >>

\* Runs of the server on a txstore that may lose a row, and lookups.
NextLookup ==
    \/ Next
    \/ LookupTxos
    \/ TxstoreDamage

SpecLookup == Init /\ [][NextLookup]_vars

\* One Indexer that never crashes, and header walks from any tip.
NextHeaders ==
    \/ UpdateStart("A")
    \/ AddBatch("A")
    \/ AddDone("A")
    \/ IndexBatch("A")
    \/ Finish("A")
    \/ NodeMine
    \/ GetNewHeaders
    \/ GetNewHeadersFails

SpecHeaders == Init /\ [][NextHeaders]_vars

\* Two Indexers, each in its own thread, on one Arc<Store>.
NextConcurrent ==
    \/ \E i \in Indexers : UpdateStart(i)
    \/ \E i \in Indexers : AddBatch(i)
    \/ \E i \in Indexers : AddDone(i)
    \/ \E i \in Indexers : IndexBatch(i)
    \/ \E i \in Indexers : Finish(i)
    \/ Crash
    \/ StoreOpen
    \/ NodeMine

SpecConcurrent == Init /\ [][NextConcurrent]_vars

\* ====================================================================
\* Properties
\* ====================================================================
Keys(db) == {r.key : r \in db}

DoneKeys(db) == {k[2] : k \in {q \in Keys(db) : q[1] = "D"}}

HeaderKeys(db) == {k[2] : k \in {q \in Keys(db) : q[1] = "B"}}

EntryHashSet(entries) == {entries[k].hash : k \in 1..Len(entries)}

Ascending(entries) ==
    \A j, k \in 1..Len(entries) : j < k => entries[j].height < entries[k].height

\* The keys the add pass has to produce for a block, read off the block.
AddKeysOf(hash) ==
    LET txs == Range(NodeBlock(hash).txdata)
    IN  { << "B", hash >>, << "D", hash >> }
        \cup { << "C", tx.txid, hash >> : tx \in txs }
        \cup UNION { { << "O", tx.txid, k - 1 >> :
                       k \in {j \in 1..Len(tx.output) : tx.output[j].script_pubkey # 0} } :
                     tx \in txs }
        \cup (IF config.light_mode THEN {}
              ELSE { << "X", hash >>, << "M", hash >> }
                   \cup { << "T", tx.txid >> : tx \in txs })

C2_AddedIffRows ==
    up =>
      /\ \A h \in Hashes :
            h \in added_blockhashes <=> AddKeysOf(h) \subseteq Keys(txstore)
      /\ \A i \in Indexers :
            pc[i] = "add" => Range(blocks[i]) \subseteq added_blockhashes

\* An add batch of two blocks has been written.
C2_Witness ==
    /\ up
    /\ pc["A"] = "add"
    /\ Len(blocks["A"]) = 2
    /\ Range(blocks["A"]) \subseteq added_blockhashes

\* The transactions of the chain, and the output an input spends.
ChainTxs == UNION { Range(NodeBlock(h).txdata) : h \in Hashes }

PrevOutput(txin) ==
    (CHOOSE tx \in ChainTxs : tx.txid = txin.txid).output[txin.vout + 1]

\* The keys the index pass has to produce for a block, read off the block.
IndexKeysOf(hash) ==
    LET txs == Range(NodeBlock(hash).txdata)
        height == hash - 1
    IN  { << "D", hash >> }
        \cup UNION { { << "H", << "sha256", tx.output[k].script_pubkey >>, height, "F",
                         tx.txid, k - 1, tx.output[k].value >> :
                       k \in {j \in 1..Len(tx.output) :
                                tx.output[j].script_pubkey # 0 \/ config.index_unspendables} } :
                     tx \in txs }
        \cup UNION { UNION { { << "H", << "sha256", PrevOutput(tx.input[k]).script_pubkey >>,
                                 height, "S", tx.txid, k - 1, tx.input[k].txid,
                                 tx.input[k].vout, PrevOutput(tx.input[k]).value >>,
                               << "S", tx.input[k].txid, tx.input[k].vout, tx.txid, k - 1 >> } :
                             k \in {j \in 1..Len(tx.input) : tx.input[j].txid # 0} } :
                     tx \in txs }

\* C3: while the Store is open, a block hash is in indexed_blockhashes iff
\* all rows the index pass produces for the block are in history; the index
\* pass extends indexed_blockhashes with the batch it has written.
C3_IndexedIffRows ==
    up => \A h \in Hashes :
            h \in indexed_blockhashes <=> IndexKeysOf(h) \subseteq Keys(history)

\* C4: inside update() the index pass starts only after the add pass has
\* written every batch of to_add and auto-compactions are enabled on txstore;
\* history is written only by a running index pass; auto-compactions on
\* history are enabled only after the last index batch has been written.
C4_Step ==
    /\ \A i \in Indexers :
          pc'[i] = "index" =>
             /\ to_add'[i] = << >>
             /\ txstore_ac'
             /\ EntryHashSet(new_headers'[i]) \subseteq DoneKeys(txstore')
    /\ ~(Keys(history') \subseteq Keys(history)) =>
          \E i \in Indexers : pc[i] = "index" /\ to_add[i] = << >> /\ txstore_ac
    /\ (history_ac' /\ ~history_ac) =>
          \E i \in Indexers :
             /\ pc[i] = "index"
             /\ to_index[i] = << >>
             /\ EntryHashSet(new_headers[i]) \subseteq DoneKeys(history)

C4_PassOrder == [][C4_Step]_vars

\* An update() over at least two new blocks has enabled both auto-compactions.
C4_Witness ==
    /\ txstore_ac
    /\ history_ac
    /\ pc["A"] = "idle"
    /\ Len(new_headers["A"]) >= 2

done_initial_sync(db) == DBGet(db, << "t" >>) # None

\* C5: when update() completes, txstore key t holds the new tip hash, the
\* header list has new_headers applied and its tip is that hash, update()
\* returns that hash; t is written only after both passes have finished.
C5_Step ==
    /\ \A i \in Indexers :
          (pc[i] = "index" /\ pc'[i] = "idle" /\ up') =>
             /\ ret'[i] = Some(tip[i])
             /\ DBGet(txstore', << "t" >>) = Some(<< tip[i] >>)
             /\ done_initial_sync(txstore')
             /\ HeaderListTip(indexed_headers') = tip[i]
             /\ EntryHashSet(new_headers[i]) \subseteq EntryHashSet(indexed_headers')
    /\ DBGet(txstore', << "t" >>) # DBGet(txstore, << "t" >>) =>
          \E i \in Indexers :
             /\ pc[i] = "index"
             /\ to_add[i] = << >>
             /\ to_index[i] = << >>
             /\ EntryHashSet(new_headers[i]) \subseteq DoneKeys(txstore)
             /\ EntryHashSet(new_headers[i]) \subseteq DoneKeys(history)

C5_TipPublished == [][C5_Step]_vars

\* update() has returned a tip above the genesis block and t holds it.
C5_Witness ==
    /\ pc["A"] = "idle"
    /\ ret["A"] # None
    /\ ret["A"] = Some(tip["A"])
    /\ tip["A"] > HashAt(0)
    /\ DBGet(txstore, << "t" >>) = Some(<< tip["A"] >>)

\* C6: the add pass gets exactly the new headers not in added_blockhashes and
\* the index pass exactly those not in indexed_blockhashes, in ascending
\* order; no pass fetches or writes a block that is in its set or has its
\* done marker in the database, also in a run resumed after an interruption.
C6_Step ==
    \A i \in Indexers :
       /\ (pc[i] = "idle" /\ pc'[i] = "add") =>
             /\ EntryHashSet(to_add'[i]) =
                   EntryHashSet(new_headers'[i]) \ added_blockhashes
             /\ Len(to_add'[i]) = Cardinality(EntryHashSet(to_add'[i]))
             /\ Ascending(to_add'[i])
       /\ (pc[i] = "add" /\ pc'[i] = "index") =>
             /\ EntryHashSet(to_index'[i]) =
                   EntryHashSet(new_headers[i]) \ indexed_blockhashes
             /\ Len(to_index'[i]) = Cardinality(EntryHashSet(to_index'[i]))
             /\ Ascending(to_index'[i])
       /\ (pc[i] = "add" /\ pc'[i] = "add" /\ to_add'[i] # to_add[i]) =>
             /\ blocks'[i] # << >>
             /\ Range(blocks'[i]) \cap added_blockhashes = {}
             /\ Range(blocks'[i]) \cap DoneKeys(txstore) = {}
       /\ (pc[i] = "index" /\ pc'[i] = "index" /\ to_index'[i] # to_index[i]) =>
             /\ blocks'[i] # << >>
             /\ Range(blocks'[i]) \cap indexed_blockhashes = {}
             /\ Range(blocks'[i]) \cap DoneKeys(history) = {}

C6_OnlyMissingBlocks == [][C6_Step]_vars

\* A resumed index pass: a new header is skipped as indexed, another batch
\* has been fetched and indexed.
C6_Witness ==
    /\ pc["A"] = "index"
    /\ blocks["A"] # << >>
    /\ EntryHashSet(new_headers["A"]) \cap indexed_blockhashes # {}

\* C7: update() run again right after a successful update(), the node's best
\* block unchanged, fetches no block, leaves txstore, history and the header
\* list as they are and returns the same tip.
C7_Step ==
    \A i \in Indexers :
       /\ (pc[i] = "idle" /\ pc'[i] = "add" /\ ret[i] = Some(tip'[i])) =>
             /\ new_headers'[i] = << >>
             /\ to_add'[i] = << >>
       /\ (pc[i] # "idle" /\ ret[i] = Some(tip[i]) /\ up') =>
             /\ txstore' = txstore
             /\ history' = history
             /\ indexed_headers' = indexed_headers
             /\ blocks'[i] = << >>
             /\ to_index'[i] = << >>
             /\ ret'[i] = ret[i]

C7_RerunIsNoOp == [][C7_Step]_vars

\* The second update() has returned.
C7_Witness ==
    /\ pc["A"] = "idle"
    /\ ret["A"] # None
    /\ ret["A"] = Some(tip["A"])
    /\ new_headers["A"] = << >>

\* What one uninterrupted update() up to a tip leaves in the databases.
FullEntries(tiphash) == [k \in 1..tiphash |-> HeaderEntry(k - 1, NodeHeader(k))]

UninterruptedTxstore(tiphash) ==
    DBPut(DBWrite(DBOpen({}, config.light_mode),
                  add_blocks(BlockEntries(FullEntries(tiphash)), config)),
          << "t" >>, << tiphash >>)

UninterruptedHistory(tiphash) ==
    DBWrite(DBOpen({}, config.light_mode),
            index_blocks(BlockEntries(FullEntries(tiphash)),
                         lookup_txos(UninterruptedTxstore(tiphash),
                                     get_previous_txos(BlockEntries(FullEntries(tiphash)))),
                         config))

\* C8: update() interrupted between its add pass and its index pass, the
\* store reopened and update() run again: the final txstore and history are
\* those of one uninterrupted update().
C8_ResumeSameDatabases ==
    (pc["A"] = "idle" /\ ret["A"] # None /\ last_exit = "between") =>
       /\ txstore = UninterruptedTxstore(ret["A"][1])
       /\ history = UninterruptedHistory(ret["A"][1])

\* The rerun after such an interruption has returned.
C8_Witness ==
    /\ pc["A"] = "idle"
    /\ ret["A"] # None
    /\ last_exit = "between"
    /\ IndexKeysOf(ret["A"][1]) \subseteq Keys(history)

\* C9: after update() succeeds, the B keys of txstore are exactly the blocks
\* up to the tip, and so are the D keys of txstore and the D keys of history.
C9_MarkersMatchChain ==
    (pc["A"] = "idle" /\ ret["A"] # None) =>
       /\ HeaderKeys(txstore) = 1..ret["A"][1]
       /\ DoneKeys(txstore) = 1..ret["A"][1]
       /\ DoneKeys(history) = 1..ret["A"][1]

\* update() has succeeded on a chain of at least two blocks.
C9_Witness ==
    /\ pc["A"] = "idle"
    /\ ret["A"] # None
    /\ Cardinality(DoneKeys(history)) >= 2
    /\ DoneKeys(history) = DoneKeys(txstore)

\* C10: two concurrent update() calls on one Store are serialized (their
\* passes do not interleave) and write each block's rows at most once.
C10_MidPass(i) == pc[i] # "idle" /\ blocks[i] # << >>

C10_Serialized ==
    /\ [](~(C10_MidPass("A") /\ C10_MidPass("B")))
    /\ [][\A i \in Indexers :
            (pc[i] = "add" /\ pc'[i] = "add" /\ to_add'[i] # to_add[i]) =>
               Range(blocks'[i]) \cap DoneKeys(txstore) = {}]_vars

\* ====================================================================
\* The daemon client: Waiter, Counter, Connection, Daemon
\* ====================================================================
\* ---------------------------------------------------------------- bounds
\* entries per wire request: chunks(50_000) in handle_request_batch, scaled
ChunkSize == 2
MaxParams == 3
MaxFaults == 2
MaxCalls == 2
\* ids Daemon::new may draw before it stops polling a node that never syncs
MaxPollId == 5

\* ------------------------------------------------------------- constants
MinVersion == 160000
RPC_IN_WARMUP == -28
RPC_OTHER == -5
SIGINT == 2
SIGUSR1 == 10
SIGTERM == 15
ChanCap == 1
ReconnectWait == 3
ConnectWait == 3
PollWait == 5


\* Result<T>
Ok(v) == [ok |-> TRUE, kind |-> "none", val |-> v]

Err(kind) == [ok |-> FALSE, kind |-> kind, val |-> << >>]

JsonNull == << >>

\* The result the node gives for a method: getnetworkinfo -> << version >>,
\* getblockchaininfo -> << pruned (0/1), initialblockdownload (0 absent, 1 true,
\* 2 false), blocks, headers >>, any other method -> a value made of its
\* parameter.
NodeResult(n, method, p) ==
    LET pruned == IF n.pruned THEN 1 ELSE 0
        ibd == IF n.ibd = "absent" THEN 0 ELSE IF n.ibd = "true" THEN 1 ELSE 2
    IN  IF method = "getnetworkinfo" THEN << n.version >>
        ELSE IF method = "getblockchaininfo"
             THEN << pruned, ibd, n.blocks, n.headers >>
             ELSE << 100 + p >>

\* One element of a batch reply, as the node or a broken peer may send it.
ElemKinds ==
    {"ok", "warmup", "rpcerr", "wrong_id", "no_id", "null_result", "no_result",
     "error_nocode", "non_object"}

ReplyElem(n, entry, kind) ==
    [object |-> kind # "non_object",
     error  |-> IF kind \in {"warmup", "rpcerr"} THEN "code"
                ELSE IF kind = "error_nocode" THEN "nocode" ELSE "null",
     code   |-> IF kind = "warmup" THEN RPC_IN_WARMUP
                ELSE IF kind = "rpcerr" THEN RPC_OTHER ELSE 0,
     has_id |-> kind # "no_id",
     id     |-> IF kind = "wrong_id" THEN entry.id + 1 ELSE entry.id,
     result |-> IF kind = "no_result" THEN "absent"
                ELSE IF kind \in {"ok", "wrong_id", "no_id", "error_nocode"} THEN "value"
                ELSE "null",
     value  |-> IF kind \in {"ok", "wrong_id", "no_id", "error_nocode"}
                THEN NodeResult(n, entry.method, entry.params)
                ELSE JsonNull]

\* The reply array: element k answers entry k; element at `bad` is of `kind`.
ReplyArray(n, request, bad, kind) ==
    [k \in 1..Len(request) |->
        ReplyElem(n, request[k], IF k = bad THEN kind ELSE "ok")]

\* Length of the body line of a reply.
BodyLen(body) == 2 + Len(body.elems)

TransportKinds ==
    {"eof", "status_ioerr", "line_ioerr", "no_body", "no_content_length",
     "bad_content_length", "length_mismatch", "status_404"}


\* An HTTP response carrying `elems`, broken as `kind` says ("ok": not broken).
HttpResponse(elems, kind, status) ==
    LET body == [valid |-> kind # "invalid_json", array |-> kind # "non_array",
                 elems |-> elems]
    IN  [status_line |-> IF kind = "eof" THEN "eof"
                         ELSE IF kind = "status_ioerr" THEN "ioerr" ELSE "ok",
         status |-> IF kind = "status_404" THEN 404 ELSE status,
         lines |-> IF kind = "line_ioerr" THEN "ioerr"
                   ELSE IF kind = "no_body" THEN "eof" ELSE "ok",
         has_content_length |-> kind # "no_content_length",
         content_length_parses |-> kind # "bad_content_length",
         content_length |-> IF kind = "length_mismatch" THEN BodyLen(body) + 2
                            ELSE BodyLen(body) + 1,
         body |-> body]

\* Every response the peer can give to a wire request.
GoodResponse(n, request) == HttpResponse(ReplyArray(n, request, 0, "ok"), "ok", 200)

FaultyResponses(n, request) ==
    {HttpResponse(ReplyArray(n, request, 0, "ok"), kind, 200) :
        kind \in TransportKinds \cup {"invalid_json", "non_array"}}
    \cup
    {HttpResponse(ReplyArray(n, request, bad, kind),
                  "ok", IF kind \in {"warmup", "rpcerr"} THEN 500 ELSE 200) :
        bad \in 1..Len(request), kind \in ElemKinds \ {"ok"}}

\* ------------------------------------------------------------ Connection
\* Connection::recv on the response the peer sent.
ConnectionRecv(resp) ==
    IF resp.status_line = "eof" THEN Err("Connection")
    ELSE IF resp.status_line = "ioerr" THEN Err("Msg")
    ELSE IF resp.lines = "ioerr" THEN Err("Connection")
    ELSE IF resp.lines = "eof" THEN Err("Connection")
    ELSE IF ~resp.has_content_length THEN Err("Msg")
    ELSE IF ~resp.content_length_parses THEN Err("Msg")
    ELSE IF resp.content_length - 1 # BodyLen(resp.body) THEN Err("Connection")
    ELSE IF resp.status = 200 \/ resp.status = 500 THEN Ok(resp.body)
    ELSE Err("Msg")

\* ---------------------------------------------------------------- Daemon
parse_error_code(reply) == IF reply.error = "code" THEN Some(reply.code) ELSE None

\* mutant: every error code is taken for the warm-up code
parse_jsonrpc_reply_all_warmup(reply, expected_id) ==
    IF ~reply.object THEN Err("Msg")
    ELSE IF parse_error_code(reply) # None THEN Err("Connection")
    ELSE IF ~reply.has_id THEN Err("Msg")
    ELSE IF reply.id # expected_id THEN Err("Msg")
    ELSE IF reply.result # "absent" THEN Ok(reply.value)
    ELSE Err("Msg")

parse_jsonrpc_reply(reply, expected_id) ==
    IF ~reply.object THEN Err("Msg")
    ELSE IF parse_error_code(reply) = Some(RPC_IN_WARMUP) THEN Err("Connection")
    ELSE IF parse_error_code(reply) # None THEN Err("Msg")
    ELSE IF ~reply.has_id THEN Err("Msg")
    ELSE IF reply.id # expected_id THEN Err("Msg")
    ELSE IF reply.result # "absent" THEN Ok(reply.value)
    ELSE Err("Msg")

\* handle_request_batch, lines 267-273: the replies of one chunk, in order,
\* up to the first that fails.
RECURSIVE ParseReplies(_, _, _, _)
ParseReplies(elems, id, k, acc) ==
    IF k > Len(elems) THEN Ok(acc)
    ELSE LET r == parse_jsonrpc_reply(elems[k], id)
         IN  IF r.ok THEN ParseReplies(elems, id, k + 1, Append(acc, r.val)) ELSE r

\* call_jsonrpc from recv on, and the reply loop of handle_request_batch.
HandleResponse(resp, id) ==
    LET r == ConnectionRecv(resp)
    IN  IF ~r.ok THEN r
        ELSE IF ~r.val.valid THEN Err("Msg")
        ELSE IF ~r.val.array THEN Err("Msg")
        ELSE ParseReplies(r.val.elems, id, 1, << >>)

\* mutant: the counter hands out its value without advancing
CounterNextStuck(value) == IF value = 0 THEN 1 ELSE value

\* Counter::next
CounterNext(value) == value + 1

NumChunks(n) == (n + ChunkSize - 1) \div ChunkSize

\* mutant: every chunk after the first starts one entry late
ChunkSkipping(params, k) ==
    SubSeq(params, (k - 1) * ChunkSize + (IF k > 1 THEN 2 ELSE 1),
           Min(k * ChunkSize, Len(params)))

\* The k-th chunk of params.iter().chunks(ChunkSize)
Chunk(params, k) ==
    SubSeq(params, (k - 1) * ChunkSize + 1, Min(k * ChunkSize, Len(params)))

\* The wire request of a chunk: every entry carries the id of the attempt.
WireRequest(method, chunk, id) ==
    [k \in 1..Len(chunk) |-> [method |-> method, params |-> chunk[k], id |-> id]]

\* ---------------------------------------------------------------- Waiter
\* mutant: SIGUSR1 ends a wait that does not accept it
wait_deadline_usr1_returns(sig, accept_sigusr) ==
    IF sig = SIGUSR1 THEN "ok" ELSE "interrupt"

\* Waiter::wait_deadline on a received signal.
wait_deadline(sig, accept_sigusr) ==
    IF sig = SIGUSR1
    THEN IF accept_sigusr THEN "ok" ELSE "again"
    ELSE "interrupt"

WaitBegin(duration, accept_sigusr) ==
    [st |-> "waiting", remaining |-> duration, accept_sigusr |-> accept_sigusr,
     duration |-> duration, elapsed |-> 0, usr1 |-> 0, sig |-> 0, via |-> "none"]

\* What a response is, seen from outside the client: broken in transport,
\* broken in its body, or the kind of its first element that is not a plain
\* result for the expected id.
Classify(resp, id) ==
    LET elems == resp.body.elems
        bad == {k \in 1..Len(elems) :
                  \/ ~elems[k].object
                  \/ elems[k].error # "null"
                  \/ ~elems[k].has_id
                  \/ elems[k].id # id
                  \/ elems[k].result # "value"}
        e == elems[CHOOSE k \in bad : \A j \in bad : k <= j]
    IN  IF resp.status_line # "ok" \/ resp.lines # "ok" \/ ~resp.has_content_length
           \/ ~resp.content_length_parses
           \/ resp.content_length # BodyLen(resp.body) + 1
           \/ resp.status \notin {200, 500}
        THEN "transport"
        ELSE IF ~resp.body.valid \/ ~resp.body.array THEN "body"
        ELSE IF bad = {} THEN "ok"
        ELSE IF ~e.object THEN "non_object"
        ELSE IF e.error = "code" /\ e.code = RPC_IN_WARMUP THEN "warmup"
        ELSE IF e.error = "code" THEN "rpcerr"
        ELSE IF e.error = "nocode" THEN "error_nocode"
        ELSE IF ~e.has_id THEN "no_id"
        ELSE IF e.id # id THEN "wrong_id"
        ELSE "null_result"

\* Waiter::wait_deadline receives a signal from the channel.
WaitRecv(c) ==
    /\ ws[c].st = "waiting"
    /\ sigchan # << >>
    /\ LET sig == Head(sigchan)
           r == wait_deadline(sig, ws[c].accept_sigusr)
       IN  /\ sigchan' = Tail(sigchan)
           /\ ws' = [ws EXCEPT ![c] =
                       IF r = "again"
                       THEN [@ EXCEPT !.usr1 = 1]
                       ELSE [@ EXCEPT !.st = r, !.sig = sig,
                                      !.via = IF r = "ok" THEN "sigusr1" ELSE "signal"]]
    /\ UNCHANGED << ivars, fvars, node, faults, hpc, new_ret, last_info, message_id,
                    conn_lock, conn, dpc, rq, outcome, calls >>

\* recv_deadline times out: the deadline has come and the channel is empty.
WaitTimeout(c) ==
    /\ ws[c].st = "waiting"
    /\ sigchan = << >>
    /\ ws[c].remaining = 0
    /\ ws' = [ws EXCEPT ![c] = [@ EXCEPT !.st = "ok", !.via = "timeout"]]
    /\ UNCHANGED << ivars, fvars, node, faults, hpc, new_ret, last_info, message_id,
                    conn_lock, conn, dpc, rq, outcome, sigchan, calls >>

\* One second passes for every thread inside a wait.
Tick ==
    /\ \E c \in Callers : ws[c].st = "waiting"
    /\ \A c \in Callers : ws[c].st = "waiting" => ws[c].remaining > 0
    /\ ws' = [c \in Callers |->
                IF ws[c].st = "waiting"
                THEN [ws[c] EXCEPT !.remaining = @ - 1, !.elapsed = @ + 1]
                ELSE ws[c]]
    /\ UNCHANGED << ivars, fvars, node, faults, hpc, new_ret, last_info, message_id,
                    conn_lock, conn, dpc, rq, outcome, sigchan, calls >>

\* recv_deadline times out, seen without a clock: with no signal in the channel,
\* time passes until the earliest deadline of the threads that wait, and the
\* waits that end there return Ok.
Elapse ==
    /\ \E c \in Callers : ws[c].st = "waiting"
    /\ sigchan = << >>
    /\ LET waiting == {c \in Callers : ws[c].st = "waiting"}
           d == CHOOSE r \in {ws[c].remaining : c \in waiting} :
                    \A c \in waiting : r <= ws[c].remaining
       IN  ws' = [c \in Callers |->
                    IF c \notin waiting THEN ws[c]
                    ELSE IF ws[c].remaining = d
                    THEN [ws[c] EXCEPT !.st = "ok", !.via = "timeout",
                                       !.remaining = 0, !.elapsed = @ + d]
                    ELSE [ws[c] EXCEPT !.remaining = @ - d, !.elapsed = @ + d]]
    /\ UNCHANGED << ivars, fvars, node, faults, hpc, new_ret, last_info, message_id,
                    conn_lock, conn, dpc, rq, outcome, sigchan, calls >>

\* notify(): the signal thread sends a signal into the bounded channel.
SignalArrives ==
    /\ Len(sigchan) < ChanCap
    /\ \E sig \in {SIGINT, SIGTERM, SIGUSR1} : sigchan' = Append(sigchan, sig)
    /\ UNCHANGED << ivars, fvars, node, faults, hpc, new_ret, last_info, message_id,
                    conn_lock, conn, dpc, rq, outcome, ws, calls >>

\* A thread calls Waiter::wait(duration, accept_sigusr).
WaitCall(c) ==
    /\ hpc = "none"
    /\ ws[c].st = "none"
    /\ \E d \in 1..PollWait, a \in BOOLEAN :
          ws' = [ws EXCEPT ![c] = WaitBegin(d, a)]
    /\ UNCHANGED << ivars, fvars, node, faults, hpc, new_ret, last_info, message_id,
                    conn_lock, conn, dpc, rq, outcome, sigchan, calls >>

\* Waiter::wait has returned to that thread.
WaitReturn(c) ==
    /\ hpc = "none"
    /\ ws[c].st \in {"ok", "interrupt"}
    /\ ws' = [ws EXCEPT ![c] = NoWait]
    /\ UNCHANGED << ivars, fvars, node, faults, hpc, new_ret, last_info, message_id,
                    conn_lock, conn, dpc, rq, outcome, sigchan, calls >>

\* mutant: a Connection error is returned like any other error
RetryMatchNoRetry(c, res, rq2) ==
    /\ rq' = [rq EXCEPT ![c] = rq2]
    /\ dpc' = [dpc EXCEPT ![c] = "done"]
    /\ outcome' = [outcome EXCEPT ![c] = Some(res)]
    /\ UNCHANGED ws

\* retry_request_batch, lines 239-250: what the loop does with the result of
\* handle_request_batch.
RetryMatch(c, res, rq2) ==
    /\ rq' = [rq EXCEPT ![c] = rq2]
    /\ IF ~res.ok /\ res.kind = "Connection"
       THEN /\ dpc' = [dpc EXCEPT ![c] = "wait"]
            /\ ws' = [ws EXCEPT ![c] = WaitBegin(ReconnectWait, FALSE)]
            /\ UNCHANGED outcome
       ELSE /\ dpc' = [dpc EXCEPT ![c] = "done"]
            /\ outcome' = [outcome EXCEPT ![c] = Some(res)]
            /\ UNCHANGED ws

\* handle_request_batch, lines 255-261: draw the id of this attempt.
Attempt(c) ==
    /\ dpc[c] = "attempt"
    /\ message_id' = CounterNext(message_id)
    /\ LET rq2 == [rq[c] EXCEPT !.id = message_id', !.chunk = 1, !.results = << >>,
                                !.attempts = @ + 1, !.wire_requests = 0,
                                !.sent = << >>]
       IN  IF rq[c].params = << >>
           THEN RetryMatch(c, Ok(<< >>), rq2)
           ELSE /\ rq' = [rq EXCEPT ![c] = rq2]
                /\ dpc' = [dpc EXCEPT ![c] = "call"]
                /\ UNCHANGED << outcome, ws >>
    /\ UNCHANGED << ivars, fvars, node, faults, hpc, new_ret, last_info, conn_lock, conn,
                    sigchan, calls >>

\* mutant: the request is sent without taking the connection mutex
SendUnlocked(c) ==
    /\ dpc[c] = "call"
    /\ LET chunk == Chunk(rq[c].params, rq[c].chunk)
       IN  /\ conn' = [conn EXCEPT
                         !.request = Some(WireRequest(rq[c].method, chunk, rq[c].id))]
           /\ rq' = [rq EXCEPT ![c] = [@ EXCEPT !.wire_requests = @ + 1,
                                                !.sent = @ \o chunk]]
    /\ conn_lock' = c
    /\ dpc' = [dpc EXCEPT ![c] = "recv"]
    /\ UNCHANGED << ivars, fvars, node, faults, hpc, new_ret, last_info, message_id,
                    outcome, sigchan, ws, calls >>

\* call_jsonrpc, lines 280-284: lock the connection and send the next chunk.
Send(c) ==
    /\ dpc[c] = "call"
    /\ conn_lock = "free"
    /\ LET chunk == Chunk(rq[c].params, rq[c].chunk)
       IN  /\ conn' = [conn EXCEPT
                         !.request = Some(WireRequest(rq[c].method, chunk, rq[c].id))]
           /\ rq' = [rq EXCEPT ![c] = [@ EXCEPT !.wire_requests = @ + 1,
                                                !.sent = @ \o chunk]]
    /\ conn_lock' = c
    /\ dpc' = [dpc EXCEPT ![c] = "recv"]
    /\ UNCHANGED << ivars, fvars, node, faults, hpc, new_ret, last_info, message_id,
                    outcome, sigchan, ws, calls >>

\* Connection::send fails: the cookie cannot be read or the socket write fails.
SendFails(c) ==
    /\ dpc[c] = "call"
    /\ conn_lock = "free"
    /\ faults < MaxFaults
    /\ faults' = faults + 1
    /\ RetryMatch(c, Err("Connection"),
                  [rq[c] EXCEPT !.other_faults = 1, !.last = "send"])
    /\ UNCHANGED << ivars, fvars, node, hpc, new_ret, last_info, message_id, conn_lock,
                    conn, sigchan, calls >>

\* What the peer may send in answer to the request on the wire: the node's
\* reply, or, while the budget of faults lasts, a broken one.
Responses ==
    {GoodResponse(node, conn.request[1])}
    \cup (IF faults < MaxFaults THEN FaultyResponses(node, conn.request[1]) ELSE {})

\* call_jsonrpc, lines 290-300, and handle_request_batch, lines 267-276:
\* receive the response, release the mutex, parse the replies of the chunk.
Recv(c) ==
    /\ dpc[c] = "recv"
    /\ conn_lock' = "free"
    /\ conn' = [conn EXCEPT !.request = << >>]
    /\ \E resp \in Responses :
          LET res == HandleResponse(resp, rq[c].id)
              class == Classify(resp, rq[c].id)
              rq2 == [rq[c] EXCEPT
                        !.results = IF res.ok THEN @ \o res.val ELSE @,
                        !.warmups = IF class = "warmup" THEN @ + 1 ELSE @,
                        !.other_faults = IF class \notin {"ok", "warmup"} THEN 1 ELSE @,
                        !.last = class]
          IN  /\ faults' = IF resp = GoodResponse(node, conn.request[1])
                           THEN faults ELSE faults + 1
              /\ IF res.ok /\ rq[c].chunk < NumChunks(Len(rq[c].params))
                 THEN /\ rq' = [rq EXCEPT ![c] = [rq2 EXCEPT !.chunk = @ + 1]]
                      /\ dpc' = [dpc EXCEPT ![c] = "call"]
                      /\ UNCHANGED << outcome, ws >>
                 ELSE RetryMatch(c, IF res.ok THEN Ok(rq2.results) ELSE res, rq2)
    /\ UNCHANGED << ivars, fvars, node, hpc, new_ret, last_info, message_id,
                    sigchan, calls >>

\* mutant: the result of the wait is dropped
AfterWaitIgnoresInterrupt(c) ==
    /\ dpc[c] = "wait"
    /\ ws[c].st \in {"ok", "interrupt"}
    /\ ws' = [ws EXCEPT ![c] = NoWait]
    /\ dpc' = [dpc EXCEPT ![c] = "reconnect"]
    /\ UNCHANGED << ivars, fvars, node, faults, hpc, new_ret, last_info, message_id,
                    conn_lock, conn, rq, outcome, sigchan, calls >>

\* retry_request_batch, line 242: the 3 s wait has returned.
AfterWait(c) ==
    /\ dpc[c] = "wait"
    /\ ws[c].st \in {"ok", "interrupt"}
    /\ ws' = [ws EXCEPT ![c] = NoWait]
    /\ IF ws[c].st = "interrupt"
       THEN /\ dpc' = [dpc EXCEPT ![c] = "done"]
            /\ outcome' = [outcome EXCEPT ![c] = Some(Err("Interrupt"))]
       ELSE /\ dpc' = [dpc EXCEPT ![c] = "reconnect"]
            /\ UNCHANGED outcome
    /\ UNCHANGED << ivars, fvars, node, faults, hpc, new_ret, last_info, message_id,
                    conn_lock, conn, rq, sigchan, calls >>

\* retry_request_batch, lines 244-247: with the connection locked, replace it
\* by a new one (TcpStream::connect succeeds) and try the batch again.
Reconnect(c) ==
    /\ dpc[c] = "reconnect"
    /\ conn_lock \in {"free", c}
    /\ conn_lock' = "free"
    /\ conn' = [gen |-> conn.gen + 1, request |-> << >>]
    /\ rq' = [rq EXCEPT ![c] = [@ EXCEPT !.reconnects = @ + 1]]
    /\ dpc' = [dpc EXCEPT ![c] = "attempt"]
    /\ UNCHANGED << ivars, fvars, node, faults, hpc, new_ret, last_info, message_id,
                    outcome, sigchan, ws, calls >>

\* tcp_connect inside that reconnect: TcpStream::connect fails, the thread
\* waits 3 s with the connection mutex held.
ReconnectFails(c) ==
    /\ dpc[c] = "reconnect"
    /\ conn_lock \in {"free", c}
    /\ faults < MaxFaults
    /\ faults' = faults + 1
    /\ conn_lock' = c
    /\ dpc' = [dpc EXCEPT ![c] = "connwait"]
    /\ ws' = [ws EXCEPT ![c] = WaitBegin(ConnectWait, FALSE)]
    /\ UNCHANGED << ivars, fvars, node, hpc, new_ret, last_info, message_id, conn, rq,
                    outcome, sigchan, calls >>

\* tcp_connect, lines 134-135: the wait between connect attempts has returned.
ConnectRetry(c) ==
    /\ dpc[c] = "connwait"
    /\ ws[c].st \in {"ok", "interrupt"}
    /\ ws' = [ws EXCEPT ![c] = NoWait]
    /\ IF ws[c].st = "interrupt"
       THEN /\ dpc' = [dpc EXCEPT ![c] = "done"]
            /\ outcome' = [outcome EXCEPT ![c] = Some(Err("Interrupt"))]
            /\ conn_lock' = "free"
       ELSE /\ dpc' = [dpc EXCEPT ![c] = "reconnect"]
            /\ UNCHANGED << outcome, conn_lock >>
    /\ UNCHANGED << ivars, fvars, node, faults, hpc, new_ret, last_info, message_id,
                    conn, rq, sigchan, calls >>

\* A thread calls the daemon: thread t1 calls Daemon::requests with a list of
\* parameter sets, any other thread Daemon::request, a list of one.
Call(c) ==
    /\ hpc = "ready"
    /\ dpc[c] = "idle"
    /\ calls < MaxCalls
    /\ calls' = calls + 1
    /\ \E n \in (IF c = "t1" THEN 0..MaxParams ELSE {1}) :
          rq' = [rq EXCEPT ![c] = [NoRequest EXCEPT !.method = "getblock",
                                                    !.params = [k \in 1..n |-> k]]]
    /\ outcome' = [outcome EXCEPT ![c] = << >>]
    /\ dpc' = [dpc EXCEPT ![c] = "attempt"]
    /\ UNCHANGED << ivars, fvars, node, faults, hpc, new_ret, last_info, message_id,
                    conn_lock, conn, sigchan, ws >>

\* retry_request_batch has returned to that thread.
Return(c) ==
    /\ hpc = "ready"
    /\ dpc[c] = "done"
    /\ dpc' = [dpc EXCEPT ![c] = "idle"]
    /\ rq' = [rq EXCEPT ![c] = NoRequest]
    /\ outcome' = [outcome EXCEPT ![c] = << >>]
    /\ UNCHANGED << ivars, fvars, node, faults, hpc, new_ret, last_info, message_id,
                    conn_lock, conn, sigchan, ws, calls >>

\* ----------------------------------------------------------- Daemon::new
\* The thread that runs Daemon::new (run_server).
Main == "t1"

\* Daemon::request: one parameter set, the single value of the reply.
StartRequest(method) ==
    /\ rq' = [rq EXCEPT ![Main] = [NoRequest EXCEPT !.method = method,
                                                    !.params = << 0 >>]]
    /\ outcome' = [outcome EXCEPT ![Main] = << >>]
    /\ dpc' = [dpc EXCEPT ![Main] = "attempt"]

RequestResult(c) ==
    LET o == outcome[c][1] IN IF o.ok THEN Ok(o.val[1]) ELSE o

\* serde_json::from_value into NetworkInfo / BlockchainInfo
from_value(r) == IF r.ok /\ r.val = JsonNull THEN Err("Msg") ELSE r

\* Daemon::new fails with an error.
NewFails(e) ==
    /\ hpc' = "failed"
    /\ new_ret' = Some(e)
    /\ dpc' = [dpc EXCEPT ![Main] = "idle"]
    /\ UNCHANGED << rq, outcome >>

\* Connection::new inside Daemon::new: tcp_connect succeeds; getnetworkinfo.
NewConnect ==
    /\ hpc = "connect"
    /\ conn' = IdleConn
    /\ hpc' = "netinfo"
    /\ StartRequest("getnetworkinfo")
    /\ UNCHANGED << ivars, fvars, node, faults, new_ret, last_info, message_id, conn_lock,
                    sigchan, ws, calls >>

\* tcp_connect inside Connection::new: TcpStream::connect fails, wait 3 s.
NewConnectFails ==
    /\ hpc = "connect"
    /\ faults < MaxFaults
    /\ faults' = faults + 1
    /\ hpc' = "connwait"
    /\ ws' = [ws EXCEPT ![Main] = WaitBegin(ConnectWait, FALSE)]
    /\ UNCHANGED << ivars, fvars, node, new_ret, last_info, message_id, conn_lock, conn,
                    dpc, rq, outcome, sigchan, calls >>

\* tcp_connect, lines 134-135, inside Daemon::new.
NewConnWait ==
    /\ hpc = "connwait"
    /\ ws[Main].st \in {"ok", "interrupt"}
    /\ ws' = [ws EXCEPT ![Main] = NoWait]
    /\ IF ws[Main].st = "interrupt"
       THEN NewFails(Err("Interrupt"))
       ELSE hpc' = "connect" /\ UNCHANGED << new_ret, dpc, rq, outcome >>
    /\ UNCHANGED << ivars, fvars, node, faults, last_info, message_id, conn_lock, conn,
                    sigchan, calls >>

\* mutant: the version of the node is not checked
NewNetInfoAnyVersion ==
    /\ hpc = "netinfo"
    /\ dpc[Main] = "done"
    /\ LET info == from_value(RequestResult(Main))
       IN  IF ~info.ok THEN NewFails(info)
           ELSE /\ hpc' = "chaininfo"
                /\ StartRequest("getblockchaininfo")
                /\ UNCHANGED new_ret
    /\ UNCHANGED << ivars, fvars, node, faults, last_info, message_id, conn_lock, conn,
                    sigchan, ws, calls >>

\* Daemon::new, lines 76-86: the version check.
NewNetInfo ==
    /\ hpc = "netinfo"
    /\ dpc[Main] = "done"
    /\ LET info == from_value(RequestResult(Main))
       IN  IF ~info.ok THEN NewFails(info)
           ELSE IF info.val[1] < MinVersion THEN NewFails(Err("Msg"))
           ELSE /\ hpc' = "chaininfo"
                /\ StartRequest("getblockchaininfo")
                /\ UNCHANGED new_ret
    /\ UNCHANGED << ivars, fvars, node, faults, last_info, message_id, conn_lock, conn,
                    sigchan, ws, calls >>

\* Daemon::new, lines 86-94: the pruned check.
NewChainInfo ==
    /\ hpc = "chaininfo"
    /\ dpc[Main] = "done"
    /\ LET info == from_value(RequestResult(Main))
       IN  IF ~info.ok THEN NewFails(info) /\ UNCHANGED last_info
           ELSE /\ last_info' = Some(info.val)
                /\ IF info.val[1] = 1 THEN NewFails(Err("Msg"))
                   ELSE /\ hpc' = "poll"
                        /\ StartRequest("getblockchaininfo")
                        /\ UNCHANGED new_ret
    /\ UNCHANGED << ivars, fvars, node, faults, message_id, conn_lock, conn,
                    sigchan, ws, calls >>

\* Daemon::new, lines 94-110: one round of the sync loop.
NewPoll ==
    /\ hpc = "poll"
    /\ dpc[Main] = "done"
    /\ LET info == from_value(RequestResult(Main))
       IN  IF ~info.ok THEN NewFails(info) /\ UNCHANGED << last_info, ws >>
           ELSE /\ last_info' = Some(info.val)
                /\ dpc' = [dpc EXCEPT ![Main] = "idle"]
                /\ UNCHANGED << rq, outcome >>
                /\ IF info.val[2] # 1 /\ info.val[3] = info.val[4]
                   THEN /\ hpc' = "ready"
                        /\ new_ret' = Some(Ok(<< >>))
                        /\ UNCHANGED ws
                   ELSE /\ hpc' = "pollwait"
                        /\ ws' = [ws EXCEPT ![Main] = WaitBegin(PollWait, FALSE)]
                        /\ UNCHANGED new_ret
    /\ UNCHANGED << ivars, fvars, node, faults, message_id, conn_lock, conn, sigchan, calls >>

\* Daemon::new, line 107: the 5 s wait has returned.
NewPollWait ==
    /\ hpc = "pollwait"
    /\ ws[Main].st \in {"ok", "interrupt"}
    /\ ws[Main].st = "ok" => message_id < MaxPollId
    /\ ws' = [ws EXCEPT ![Main] = NoWait]
    /\ IF ws[Main].st = "interrupt"
       THEN NewFails(Err("Interrupt"))
       ELSE /\ hpc' = "poll"
            /\ StartRequest("getblockchaininfo")
            /\ UNCHANGED new_ret
    /\ UNCHANGED << ivars, fvars, node, faults, last_info, message_id, conn_lock, conn,
                    sigchan, calls >>

\* The node validates a block or leaves initial block download.
NodeSyncs ==
    /\ hpc \notin {"none", "ready", "failed"}
    /\ \/ /\ node.blocks < node.headers
          /\ node' = [node EXCEPT !.blocks = @ + 1]
       \/ /\ node.ibd = "true"
          /\ node' = [node EXCEPT !.ibd = "false"]
    /\ UNCHANGED << ivars, fvars, faults, hpc, new_ret, last_info, message_id, conn_lock,
                    conn, dpc, rq, outcome, sigchan, ws, calls >>

\* ------------------------------------------------------- specifications
IndexerQuiet ==
    /\ IndexerInit
    /\ FetcherQuiet
    /\ config = [light_mode |-> FALSE, index_unspendables |-> FALSE]

NodeConfigs ==
    [version : {MinVersion - 1, MinVersion}, pruned : BOOLEAN,
     ibd : {"absent", "true", "false"}, blocks : {0, 1}, headers : {1}]

\* run_server calls Daemon::new.
InitDaemon ==
    /\ IndexerQuiet
    /\ node \in NodeConfigs
    /\ faults = 0
    /\ hpc = "connect"
    /\ new_ret = << >>
    /\ last_info = << >>
    /\ message_id = 0
    /\ conn_lock = "free"
    /\ conn = IdleConn
    /\ dpc = [c \in Callers |-> "idle"]
    /\ rq = [c \in Callers |-> NoRequest]
    /\ outcome = [c \in Callers |-> << >>]
    /\ sigchan = << >>
    /\ ws = [c \in Callers |-> NoWait]
    /\ calls = 0

\* The daemon client used by one thread.
NextDaemon ==
    \/ NewConnect
    \/ NewConnectFails
    \/ NewConnWait
    \/ NewNetInfo
    \/ NewChainInfo
    \/ NewPoll
    \/ NewPollWait
    \/ NodeSyncs
    \/ Call(Main)
    \/ Attempt(Main)
    \/ Send(Main)
    \/ SendFails(Main)
    \/ Recv(Main)
    \/ AfterWait(Main)
    \/ Reconnect(Main)
    \/ ReconnectFails(Main)
    \/ ConnectRetry(Main)
    \/ Return(Main)
    \/ WaitRecv(Main)
    \/ Elapse
    \/ SignalArrives

SpecDaemon == InitDaemon /\ [][NextDaemon]_vars

\* Daemon::new has returned a daemon; no failure happened during it.
InitDaemonReady ==
    /\ IndexerQuiet
    /\ node = [version |-> MinVersion, pruned |-> FALSE, ibd |-> "false",
               blocks |-> 1, headers |-> 1]
    /\ faults = 0
    /\ hpc = "ready"
    /\ new_ret = Some(Ok(<< >>))
    /\ last_info = Some(NodeResult(node, "getblockchaininfo", 0))
    /\ message_id = 3
    /\ conn_lock = "free"
    /\ conn = IdleConn
    /\ dpc = [c \in Callers |-> "idle"]
    /\ rq = [c \in Callers |-> NoRequest]
    /\ outcome = [c \in Callers |-> << >>]
    /\ sigchan = << >>
    /\ ws = [c \in Callers |-> NoWait]
    /\ calls = 0

\* The daemon shared by two threads; no signal arrives.
NextDaemonConcurrent ==
    \/ \E c \in Callers : Call(c)
    \/ \E c \in Callers : Attempt(c)
    \/ \E c \in Callers : Send(c)
    \/ \E c \in Callers : SendFails(c)
    \/ \E c \in Callers : Recv(c)
    \/ \E c \in Callers : AfterWait(c)
    \/ \E c \in Callers : Reconnect(c)
    \/ \E c \in Callers : ReconnectFails(c)
    \/ \E c \in Callers : ConnectRetry(c)
    \/ \E c \in Callers : Return(c)
    \/ Elapse

SpecDaemonConcurrent == InitDaemonReady /\ [][NextDaemonConcurrent]_vars

\* One thread calling Waiter::wait.
InitWaiter == IndexerQuiet /\ DaemonQuiet

NextWaiter ==
    \/ WaitCall(Main)
    \/ WaitRecv(Main)
    \/ WaitTimeout(Main)
    \/ Tick
    \/ SignalArrives
    \/ WaitReturn(Main)

SpecWaiter == InitWaiter /\ [][NextWaiter]_vars

\* ---------------------------------------------------------------------------
\* Properties of the daemon client
\* ---------------------------------------------------------------------------

\* What the node answers to every parameter set of a call, in order.
ExpectedResults(c) ==
    [k \in 1..Len(rq[c].params) |-> NodeResult(node, rq[c].method, rq[c].params[k])]

C11_Done(c) ==
    (/\ dpc[c] = "done"
     /\ rq[c].other_faults = 0
     /\ outcome[c] # Some(Err("Interrupt")))
    => /\ outcome[c][1].ok
       /\ rq[c].reconnects = rq[c].warmups
       /\ rq[c].attempts = rq[c].warmups + 1
       /\ rq[c].sent = rq[c].params
       /\ (rq[c].method = "getblock" => outcome[c][1].val = ExpectedResults(c))

C11_Step ==
    \A c \in Callers :
        /\ C11_Done(c)'
        /\ rq'[c].attempts > rq[c].attempts =>
               rq'[c].chunk = 1 /\ rq'[c].sent = << >> /\ rq'[c].results = << >>

\* C11: a call whose only failures are k replies carrying the warm-up error
\* (-28), and which no signal interrupts, ends with the node's results after
\* exactly k reconnects and k + 1 attempts, and every attempt sends the batch
\* again from its first entry.
C11_WarmupRetried == [][C11_Step]_vars

C11_Witness ==
    /\ dpc[Main] = "done"
    /\ rq[Main].method = "getblock"
    /\ Len(rq[Main].params) = MaxParams
    /\ rq[Main].warmups = 2
    /\ rq[Main].reconnects = 2
    /\ outcome[Main][1].ok
    /\ outcome[Main][1].val = ExpectedResults(Main)

C12_Step ==
    \A c \in Callers :
        (/\ dpc[c] = "recv"
         /\ dpc'[c] # "recv"
         /\ rq'[c].last = "transport")
        => /\ dpc'[c] = "wait"
           /\ outcome'[c] = outcome[c]

\* C12: every transport failure of a response (connection closed, read error,
\* missing or unparsable Content-Length, body length mismatch, absent body,
\* HTTP status other than 200 and 500) is recovered inside retry_request_batch
\* by waiting and reconnecting; none of them ends the call.
C12_TransportRecovered == [][C12_Step]_vars

\* rq[c].last = "rpcerr": the response just read is a well-framed JSON array
\* whose first element that is not a plain result is a JSON-RPC error with a
\* code other than -28.
C13_Step ==
    \A c \in Callers :
        (/\ dpc[c] = "recv"
         /\ dpc'[c] # "recv"
         /\ rq'[c].last = "rpcerr")
        => /\ dpc'[c] = "done"
           /\ outcome'[c] = Some(Err("Msg"))
           /\ ws' = ws
           /\ conn'.gen = conn.gen
           /\ message_id' = message_id
           /\ rq'[c].attempts = rq[c].attempts
           /\ rq'[c].reconnects = rq[c].reconnects
           /\ rq'[c].wire_requests = rq[c].wire_requests

\* C13: a JSON-RPC error reply whose code is not -28 ends the request in the
\* step that reads it: the error is returned with no wait, no reconnect, no new
\* attempt and no further wire request.
C13_OtherErrorFatal == [][C13_Step]_vars

C13_Witness ==
    /\ dpc[Main] = "done"
    /\ rq[Main].method = "getblock"
    /\ rq[Main].last = "rpcerr"
    /\ outcome[Main] = Some(Err("Msg"))
    /\ rq[Main].chunk = 2
    /\ rq[Main].attempts = 2

C14_Step ==
    \A c \in Callers :
        \* the signal ends the wait with Interrupt
        /\ (/\ ws[c].st = "waiting"
            /\ sigchan # << >>
            /\ Head(sigchan) \in {SIGINT, SIGTERM}
            /\ ws'[c] # ws[c]
            /\ sigchan' # sigchan)
           => ws'[c].st = "interrupt" /\ ws'[c].sig = Head(sigchan)
        \* and the operation around the wait does nothing but return it
        /\ ws[c].st = "interrupt"
           => /\ message_id' = message_id
              /\ conn' = conn
              /\ rq' = rq
              /\ IF ws'[c].st = "interrupt"
                 THEN dpc' = dpc /\ hpc' = hpc /\ outcome' = outcome
                 ELSE IF hpc \in {"connwait", "pollwait"}
                 THEN hpc' = "failed" /\ new_ret' = Some(Err("Interrupt"))
                 ELSE /\ dpc[c] \in {"wait", "connwait"}
                      /\ dpc'[c] = "done"
                      /\ outcome'[c] = Some(Err("Interrupt"))
        \* Daemon::new passes on the Interrupt of one of its requests
        /\ (/\ hpc \in {"netinfo", "chaininfo", "poll"}
            /\ dpc[Main] = "done"
            /\ outcome[Main] = Some(Err("Interrupt"))
            /\ hpc' # hpc)
           => hpc' = "failed" /\ new_ret' = Some(Err("Interrupt"))

\* C14: when SIGINT or SIGTERM is received during the 3 s wait before a
\* reconnect, the 3 s wait between connect attempts or the 5 s wait between
\* handshake polls, the wait ends with Interrupt and the operation around it
\* returns the Interrupt error without another reconnect, attempt or request.
C14_InterruptPropagates == [][C14_Step]_vars

C14_Witness ==
    /\ hpc = "ready"
    /\ dpc[Main] = "done"
    /\ rq[Main].method = "getblock"
    /\ rq[Main].last = "warmup"
    /\ rq[Main].reconnects = 0
    /\ outcome[Main] = Some(Err("Interrupt"))

C15_Inv(w) ==
    \* Ok at the deadline, and the deadline is the one the wait began with
    /\ w.st \in {"waiting", "ok", "interrupt"} => w.remaining + w.elapsed = w.duration
    /\ w.st = "ok" /\ w.via = "timeout" => w.elapsed = w.duration
    \* Interrupt only for SIGINT and SIGTERM (and for an unaccepted SIGUSR1: never)
    /\ w.st = "interrupt" => w.sig \in {SIGINT, SIGTERM}
    \* SIGUSR1 ends the wait early only if accepted
    /\ w.st = "ok" /\ w.via = "sigusr1" => w.accept_sigusr /\ w.sig = SIGUSR1
    /\ w.st = "ok" /\ ~w.accept_sigusr => w.via = "timeout" /\ w.elapsed = w.duration

C15_Step ==
    /\ C15_Inv(ws[Main])'
    /\ (ws[Main].st = "waiting" /\ sigchan # << >> /\ sigchan' # sigchan)
       => LET sig == Head(sigchan)
          IN  /\ sig \in {SIGINT, SIGTERM} => ws'[Main].st = "interrupt"
              /\ sig = SIGUSR1 /\ ws[Main].accept_sigusr =>
                     ws'[Main].st = "ok" /\ ws'[Main].elapsed = ws[Main].elapsed
              /\ sig = SIGUSR1 /\ ~ws[Main].accept_sigusr =>
                     /\ ws'[Main].st = "waiting"
                     /\ ws'[Main].remaining = ws[Main].remaining
                     /\ ws'[Main].usr1 = 1

\* C15: Waiter::wait(duration, accept_sigusr) returns Ok when the deadline
\* passes, Interrupt when SIGINT or SIGTERM is received before it, and on
\* SIGUSR1 returns Ok early only if accept_sigusr; otherwise the signal is
\* dropped, the wait goes on and its deadline stays where it was.
C15_WaitSemantics == [][C15_Step]_vars

C15_Witness ==
    /\ ws[Main].st = "ok"
    /\ ~ws[Main].accept_sigusr
    /\ ws[Main].usr1 = 1
    /\ ws[Main].duration >= 2
    /\ ws[Main].elapsed = ws[Main].duration

\* The ids of the entries on the wire.
C16_WireIds == {conn.request[1][k].id : k \in 1..Len(conn.request[1])}

C16_Step ==
    \* the counter never goes back, and an attempt takes a value above it
    /\ message_id' >= message_id
    /\ \A c \in Callers :
          /\ rq'[c].attempts > rq[c].attempts
             => /\ message_id' > message_id
                /\ rq'[c].id = message_id'
                /\ \A d \in Callers : rq[d].id < rq'[c].id
          \* one id for the whole attempt, whatever the chunk
          /\ rq'[c].id # rq[c].id
             => rq'[c].attempts > rq[c].attempts \/ dpc[c] \in {"idle", "done"}
          \* a reply element with another id gives an error and no result
          /\ (/\ dpc[c] = "recv"
              /\ dpc'[c] # "recv"
              /\ rq'[c].last = "wrong_id")
             => /\ rq'[c].results = rq[c].results
                /\ dpc'[c] = "done" => ~outcome'[c][1].ok
    \* no two callers hold the same id
    /\ \A c, d \in Callers : c # d /\ rq'[c].id > 0 => rq'[c].id # rq'[d].id
    \* every entry on the wire carries the id of the attempt that sent it
    /\ conn'.request # << >> => C16_WireIds' = {rq'[conn_lock'].id}

\* C16: on one Daemon every attempt of a batch draws an id above every id drawn
\* before, no two attempts share an id even with concurrent callers, all entries
\* of all chunks of the attempt carry that id, and a reply element with another
\* id is rejected as an error.
C16_IdsUniqueAndChecked == [][C16_Step]_vars

C16_Witness ==
    /\ dpc["t2"] = "done"
    /\ rq["t2"].last = "wrong_id"
    /\ ~outcome["t2"][1].ok
    /\ rq["t2"].attempts = 2
    /\ dpc["t1"] = "recv"
    /\ rq["t1"].chunk = 2
    /\ rq["t1"].id > 0
    /\ rq["t1"].id < rq["t2"].id

\* rq[c].last = "ok": the response just read is a well-framed JSON array whose
\* elements are all objects with the expected id, a null error and a non-null
\* result.
C17_Step ==
    \A c \in Callers :
        (/\ dpc[c] = "recv"
         /\ Len(rq'[c].results) > Len(rq[c].results))
        => /\ rq'[c].last = "ok"
           /\ \A k \in 1..Len(rq'[c].results) : rq'[c].results[k] # JsonNull

\* C17: replies are taken as results only from a JSON array whose elements are
\* objects with the matching id and a non-null result; an element with a
\* non-null error, or without a non-null result, never becomes a result.
C17_OnlyGoodRepliesAccepted == [][C17_Step]_vars

C18_Ceil(n) == IF n % ChunkSize = 0 THEN n \div ChunkSize ELSE n \div ChunkSize + 1

C18_Step ==
    \A c \in Callers :
        \* a wire request carries the next entries, at most ChunkSize of them
        /\ rq'[c].wire_requests > rq[c].wire_requests
           => LET first == Len(rq[c].sent) + 1
                  entries == conn'.request[1]
              IN  /\ Len(entries) \in 1..ChunkSize
                  /\ first = (rq[c].chunk - 1) * ChunkSize + 1
                  /\ \A k \in 1..Len(entries) :
                        /\ first + k - 1 <= Len(rq[c].params)
                        /\ entries[k].params = rq[c].params[first + k - 1]
                        /\ entries[k].method = rq[c].method
                  /\ Len(entries) < ChunkSize => first + Len(entries) - 1 = Len(rq[c].params)
        \* the replies of a chunk are appended in the order of its elements
        /\ Len(rq'[c].results) > Len(rq[c].results)
           => /\ dpc[c] = "recv"
              /\ Len(rq'[c].results) = Len(rq[c].results) + Len(conn.request[1])
              /\ SubSeq(rq'[c].results, 1, Len(rq[c].results)) = rq[c].results
              /\ rq'[c].last = "ok"
                 => \A k \in 1..Len(conn.request[1]) :
                       rq'[c].results[Len(rq[c].results) + k] =
                          NodeResult(node, rq[c].method, conn.request[1][k].params)
        \* a successful call has sent ceil(N / ChunkSize) requests and returns
        \* one result for each parameter set, in order
        /\ (/\ dpc'[c] = "done"
            /\ outcome'[c][1].ok
            /\ rq'[c].method = "getblock")
           => /\ rq'[c].wire_requests = C18_Ceil(Len(rq'[c].params))
              /\ rq'[c].sent = rq'[c].params
              /\ Len(outcome'[c][1].val) = Len(rq'[c].params)
              /\ rq'[c].other_faults = 0 => outcome'[c][1].val = ExpectedResults(c)'

\* C18: a batched call with N parameter sets sends ceil(N / 50,000) wire
\* requests (the chunk size is scaled to ChunkSize), each with at most that many
\* entries in parameter order, and returns the replies of the chunks
\* concatenated in chunk order: the i-th result answers the i-th parameter set.
C18_ChunkedInOrder == [][C18_Step]_vars

C18_Witness ==
    /\ dpc[Main] = "done"
    /\ rq[Main].method = "getblock"
    /\ Len(rq[Main].params) = ChunkSize + 1
    /\ rq[Main].wire_requests = 2
    /\ outcome[Main][1].ok
    /\ outcome[Main][1].val = ExpectedResults(Main)

\* The threads between the send of a wire request and the receive of its reply.
C19_InFlight == {c \in Callers : dpc[c] = "recv"}

C19_Step ==
    /\ Cardinality(C19_InFlight') <= 1
    /\ \A c \in Callers :
          \* send and receive under one hold of the mutex
          /\ dpc'[c] = "recv" => conn_lock' = c /\ conn'.request # << >>
          /\ dpc[c] = "recv"
             => \* the connection is not replaced under the request
                /\ conn'.gen = conn.gen
                \* the request on the wire stays until its owner receives
                /\ conn'.request # conn.request => dpc'[c] # "recv"
                \* no other thread sends, receives or reconnects
                /\ \A d \in Callers \ {c} :
                      /\ rq'[d].wire_requests <= rq[d].wire_requests
                      /\ rq'[d].reconnects <= rq[d].reconnects
                      /\ Len(rq'[d].results) <= Len(rq[d].results)
                      /\ dpc[d] \in {"call", "reconnect"} => dpc'[d] = dpc[d]

\* C19: at most one request is in flight on the connection: a wire request is
\* sent and its reply received under one hold of the connection mutex, and
\* between the two no other caller sends, receives or replaces the connection.
C19_OneInFlight == [][C19_Step]_vars

C19_Witness ==
    /\ dpc["t1"] = "recv"
    /\ rq["t1"].chunk = 2
    /\ conn_lock = "t1"
    /\ dpc["t2"] = "reconnect"

\* The getblockchaininfo reply says the node has caught up.
C20_Synced(info) == info[2] # 1 /\ info[3] = info[4]

C20_Step ==
    \* a daemon is returned only for a supported, unpruned, synced node
    /\ hpc' = "ready"
       => /\ node'.version >= MinVersion
          /\ ~node'.pruned
          /\ last_info' # << >>
          /\ C20_Synced(last_info'[1])
          /\ new_ret' = Some(Ok(<< >>))
    \* a lower version or a pruned node makes Daemon::new fail
    /\ hpc = "netinfo" /\ hpc' # hpc /\ node.version < MinVersion
       => hpc' = "failed" /\ ~new_ret'[1].ok
    /\ hpc = "chaininfo" /\ hpc' # hpc /\ node.pruned
       => hpc' = "failed" /\ ~new_ret'[1].ok
    \* a reply that is not synced leads to the 5 s wait, and the wait to the
    \* next poll or to Interrupt
    /\ hpc = "poll" /\ hpc' # hpc /\ from_value(RequestResult(Main)).ok
       => IF C20_Synced(RequestResult(Main).val)
          THEN hpc' = "ready"
          ELSE /\ hpc' = "pollwait"
               /\ ws'[Main] = WaitBegin(PollWait, FALSE)
               /\ ws'[Main].duration = 5
    /\ hpc = "pollwait" /\ hpc' # hpc
       => \/ /\ ws[Main].st = "ok"
             /\ ws[Main].elapsed = PollWait
             /\ hpc' = "poll"
             /\ dpc'[Main] = "attempt"
             /\ rq'[Main].method = "getblockchaininfo"
          \/ /\ ws[Main].st = "interrupt"
             /\ hpc' = "failed"
             /\ new_ret' = Some(Err("Interrupt"))

\* C20: Daemon::new returns a daemon only if the node reported a version of at
\* least 160000 and pruned = false, and the last getblockchaininfo reply had
\* initialblockdownload false or absent and blocks = headers; a lower version
\* or a pruned node makes it fail; while the node is syncing it polls again
\* after an interruptible wait of 5 s.
C20_Handshake == [][C20_Step]_vars

C20_Witness ==
    /\ hpc = "ready"
    /\ faults = 0
    /\ message_id >= 4
    /\ node.ibd = "absent"
    /\ last_info # << >>
    /\ C20_Synced(last_info[1])

\* ---------------------------------------------------------------------------
\* Properties of the header walk and of the block fetcher
\* ---------------------------------------------------------------------------
C21_Known(hash) == \E k \in 1..Len(indexed_headers) : indexed_headers[k].hash = hash

C21_Step ==
    (walk' # walk /\ walk'.st = "ok") =>
        LET r == walk'.result
            n == Len(r)
        IN  /\ (n = 0) <=> C21_Known(walk'.tip)
            /\ n > 0 => block_hash(r[n]) = walk'.tip
            /\ \A k \in 1..n :
                  /\ r[k] = NodeHeader(block_hash(r[k]))
                  /\ block_hash(r[k]) # NullHash
                  /\ ~C21_Known(block_hash(r[k]))
            /\ \A k \in 2..n : r[k].prev_blockhash = block_hash(r[k - 1])
            /\ n > 0 => \/ r[1].prev_blockhash = NullHash
                        \/ C21_Known(r[1].prev_blockhash)

\* C21: with a non-empty header list, get_new_headers(indexed, tip) returns the
\* node's headers on the prev_blockhash path from tip back to, and excluding,
\* the first hash that is in the header list or is the null hash: the tip is
\* last, each header's prev_blockhash is the hash of the header before it, no
\* returned hash is in the list, the first header's parent is in the list or
\* null, and the result is empty exactly when tip is in the list.
C21_NewHeadersPath == [][C21_Step]_vars

\* A walk from the tip of the stale branch, two blocks long, that stops at the
\* fork point while the list holds the best chain's block of height 1.
C21_Witness ==
    /\ walk.st = "ok"
    /\ walk.tip = StaleHash(2)
    /\ Len(walk.result) = 2
    /\ walk.result[1].prev_blockhash = HashAt(0)
    /\ Len(indexed_headers) >= 2

\* ---------------------------------------------------------------------------
\* The RPC block fetcher (src/src/indexer/fetch.rs): the "bitcoind_fetcher"
\* worker thread, the sync_channel between it and Fetcher::each, and the thread
\* that runs Fetcher::each.  The state starts at Fetcher::from(receiver, thread):
\* the worker holds the only sending half (into_receiver dropped the other).
\* ---------------------------------------------------------------------------
MaxFetch == 5
FetchChunkSize == 2
FetchChanCap == 1

\* mutant: the chunks are taken from the end of new_headers (rchunks)
NextChunkFromEnd(headers, pos) ==
    SubSeq(headers, Len(headers) - Min(pos + FetchChunkSize, Len(headers)) + 1,
           Len(headers) - pos)

\* new_headers.chunks(100): the chunk that starts after pos headers.
NextChunk(headers, pos) ==
    SubSeq(headers, pos + 1, Min(pos + FetchChunkSize, Len(headers)))

\* What daemon.getblocks(&blockhashes) can come back with: an error, or the
\* blocks of the reply in the order of the reply.  The node may answer with
\* the blocks asked for, with one block less or more, or in another order.
GetBlocksReplies(entries) ==
    LET fetched == [k \in 1..Len(entries) |-> NodeBlock(entries[k].hash)]
    IN  {Err("getblocks"), Ok(fetched), Ok(SubSeq(fetched, 1, Len(fetched) - 1)),
         Ok(Append(fetched, fetched[1]))}
        \cup (IF Len(fetched) >= 2
              THEN {Ok(<< fetched[2], fetched[1] >> \o SubSeq(fetched, 3, Len(fetched)))}
              ELSE {})

\* mutant: the number of blocks is not compared with the number of headers
CountMismatchIgnored(fetched, entries) == FALSE

\* assert_eq!(blocks.len(), entries.len())
CountMismatch(fetched, entries) == Len(fetched) # Len(entries)

\* blocks.into_iter().zip(entries).map(..).collect()
ZipBlockEntries(fetched, entries) ==
    [k \in 1..Min(Len(fetched), Len(entries)) |-> [entry |-> entries[k], block |-> fetched[k]]]

\* mutant: the channel is unbounded
SendNeverBlocks(q) == FALSE

\* SyncSender::send parks while the buffer of sync_channel(1) is full.
SendBlocks(q) == Len(q) >= FetchChanCap

\* Fetcher::from(receiver, thread), each() not yet called.  new_headers is what
\* headers_to_add / headers_to_index leave of the best chain's entries up to
\* height MaxFetch - 1: ascending, with gaps.
InitFetcher ==
    /\ IndexerInit
    /\ KeysQuiet
    /\ config = [light_mode |-> FALSE, index_unspendables |-> FALSE]
    /\ DaemonQuiet
    /\ walk = [st |-> "none", tip |-> NullHash, result |-> << >>]
    /\ lookup = [st |-> "none", outpoints |-> {}, allow_missing |-> FALSE, result |-> << >>]
    /\ LET chain == [k \in 1..MaxFetch |-> HeaderEntry(k - 1, NodeHeader(HashAt(k - 1)))]
       IN  fetch_headers \in {SelectSeq(chain, LAMBDA he : he.height \in S) :
                                S \in SUBSET (0..(MaxFetch - 1))}
    /\ worker = [pc |-> "loop", pos |-> 0, block_entries |-> << >>, miscount |-> -1,
                 term |-> FALSE]
    /\ chan = << >>
    /\ consumer = [pc |-> "created", item |-> << >>]
    /\ sent = << >>
    /\ delivered = << >>

\* fetch.rs:71-87: the next chunk, getblocks, the two assertions, the zip.
WorkerGetBlocks ==
    /\ worker.pc = "loop"
    /\ ~worker.term
    /\ worker.pos < Len(fetch_headers)
    /\ LET entries == NextChunk(fetch_headers, worker.pos)
       IN  \E reply \in GetBlocksReplies(entries) :
             LET block_entries == ZipBlockEntries(reply.val, entries)
                 miscount == IF reply.ok /\ Len(reply.val) # Len(entries) /\ worker.miscount < 0
                             THEN worker.pos ELSE worker.miscount
             IN  worker' =
                   IF \/ ~reply.ok
                      \/ CountMismatch(reply.val, entries)
                      \/ Len(block_entries) # Len(entries)
                   THEN [worker EXCEPT !.pc = "panicked", !.miscount = miscount]
                   ELSE [worker EXCEPT !.pc = "send", !.pos = @ + Len(entries),
                                       !.block_entries = block_entries,
                                       !.miscount = miscount]
    /\ UNCHANGED << ivars, dvars, kvars, lookup, walk, fetch_headers, chan, consumer, sent, delivered >>

\* fetch.rs:89-91: send returns once the buffer has room.  (It fails only when
\* the receiver is gone, which takes a panic of the thread in each(): the
\* process is gone as well.)
WorkerSend ==
    /\ worker.pc = "send"
    /\ ~worker.term
    /\ ~SendBlocks(chan)
    /\ chan' = Append(chan, worker.block_entries)
    /\ sent' = Append(sent, worker.block_entries)
    /\ worker' = [worker EXCEPT !.pc = "loop", !.block_entries = << >>]
    /\ UNCHANGED << ivars, dvars, kvars, lookup, walk, fetch_headers, consumer, delivered >>

\* fetch.rs:71, 92-93: no chunk is left; the closure returns and drops the sender.
WorkerDone ==
    /\ worker.pc = "loop"
    /\ ~worker.term
    /\ worker.pos = Len(fetch_headers)
    /\ worker' = [worker EXCEPT !.pc = "done"]
    /\ UNCHANGED << ivars, dvars, kvars, lookup, walk, fetch_headers, chan, consumer, sent, delivered >>

\* The thread ends after its closure returned or unwound.
WorkerExit ==
    /\ worker.pc \in {"done", "panicked"}
    /\ ~worker.term
    /\ worker' = [worker EXCEPT !.term = TRUE]
    /\ UNCHANGED << ivars, dvars, kvars, lookup, walk, fetch_headers, chan, consumer, sent, delivered >>

\* update() calls each() on the Fetcher start_fetcher returned.
EachStart ==
    /\ consumer.pc = "created"
    /\ consumer' = [consumer EXCEPT !.pc = "recv"]
    /\ UNCHANGED << ivars, dvars, kvars, lookup, walk, fetch_headers, worker, chan, sent, delivered >>

\* fetch.rs:48: the receiver's iterator yields the next buffered batch.
EachRecv ==
    /\ consumer.pc = "recv"
    /\ chan # << >>
    /\ consumer' = [pc |-> "func", item |-> Head(chan)]
    /\ chan' = Tail(chan)
    /\ UNCHANGED << ivars, dvars, kvars, lookup, walk, fetch_headers, worker, sent, delivered >>

\* fetch.rs:49: func(item) returns.
EachFunc ==
    /\ consumer.pc = "func"
    /\ delivered' = Append(delivered, consumer.item)
    /\ consumer' = [pc |-> "recv", item |-> << >>]
    /\ UNCHANGED << ivars, dvars, kvars, lookup, walk, fetch_headers, worker, chan, sent >>

\* fetch.rs:49: func(item) panics (Indexer::index does on a missing txo): the
\* main thread unwinds and the process ends with all its threads.
EachFuncPanics ==
    /\ consumer.pc = "func"
    /\ consumer' = [pc |-> "panicked", item |-> << >>]
    /\ worker' = [worker EXCEPT !.term = TRUE]
    /\ UNCHANGED << ivars, dvars, kvars, lookup, walk, fetch_headers, chan, sent, delivered >>

\* fetch.rs:48-50: the buffer is empty and the sender is dropped: the loop ends.
EachDisconnected ==
    /\ consumer.pc = "recv"
    /\ chan = << >>
    /\ worker.pc \in {"done", "panicked"}
    /\ consumer' = [consumer EXCEPT !.pc = "join"]
    /\ UNCHANGED << ivars, dvars, kvars, lookup, walk, fetch_headers, worker, chan, sent, delivered >>

\* mutant: each() returns without joining the worker
EachJoinNoWait ==
    /\ consumer.pc = "join"
    /\ consumer' = [consumer EXCEPT !.pc = "returned"]
    /\ UNCHANGED << ivars, dvars, kvars, lookup, walk, fetch_headers, worker, chan, sent, delivered >>

\* fetch.rs:52: join() waits for the thread to end; expect() panics when the
\* thread panicked.
EachJoin ==
    /\ consumer.pc = "join"
    /\ worker.term
    /\ consumer' = [consumer EXCEPT
                      !.pc = IF worker.pc = "panicked" THEN "panicked" ELSE "returned"]
    /\ UNCHANGED << ivars, dvars, kvars, lookup, walk, fetch_headers, worker, chan, sent, delivered >>

NextFetcher ==
    \/ WorkerGetBlocks
    \/ WorkerSend
    \/ WorkerDone
    \/ WorkerExit
    \/ EachStart
    \/ EachRecv
    \/ EachFunc
    \/ EachFuncPanics
    \/ EachDisconnected
    \/ EachJoin

SpecFetcher == InitFetcher /\ [][NextFetcher]_vars

RECURSIVE C22_Entries(_)
C22_Entries(batches) ==
    IF batches = << >> THEN << >>
    ELSE [k \in 1..Len(batches[1]) |-> batches[1][k].entry] \o C22_Entries(Tail(batches))

\* C22: the header entries of the batches the worker sent, concatenated in
\* send order, are the input headers from the first on, in input order, none
\* skipped and none twice (the same for the batches passed to the callback);
\* a batch holds between one and FetchChunkSize entries; once the worker's
\* loop has ended normally, and once each() has returned, the batches cover
\* the whole input.
C22_InputOrder ==
    LET es == C22_Entries(sent)
        ed == C22_Entries(delivered)
    IN  /\ es = SubSeq(fetch_headers, 1, Len(es))
        /\ ed = SubSeq(fetch_headers, 1, Len(ed))
        /\ \A k \in 1..Len(sent) : Len(sent[k]) \in 1..FetchChunkSize
        /\ worker.pc = "done" => es = fetch_headers
        /\ consumer.pc = "returned" => ed = fetch_headers

\* Five headers went through in three batches and each() has returned.
C22_Witness ==
    /\ consumer.pc = "returned"
    /\ Len(fetch_headers) = 5
    /\ Len(delivered) = 3
    /\ Len(delivered[1]) = FetchChunkSize

C23_Step ==
    /\ Len(chan') <= FetchChanCap
    /\ Len(sent') > Len(sent) => chan = << >>
    /\ chan' = SubSeq(sent', Len(sent') - Len(chan') + 1, Len(sent'))
    /\ Len(chan') + (IF worker'.pc = "send" THEN 1 ELSE 0) <= FetchChanCap + 1

\* C23: the channel never buffers more than one batch: a send is accepted only
\* into an empty buffer (the worker stays in send while a batch is queued), the
\* buffer holds the most recently sent batch, and at most one more batch is
\* held by the worker in send, whatever the consumer does.
C23_Backpressure == [][C23_Step]_vars

\* A slow consumer: it is inside the callback with the first batch, the second
\* is queued, and the worker is parked in send with the third.
C23_Witness ==
    /\ consumer.pc = "func"
    /\ Len(chan) = FetchChanCap
    /\ worker.pc = "send"
    /\ worker.block_entries # << >>
    /\ Len(sent) = 2
    /\ delivered = << >>

C24_Step ==
    worker'.miscount >= 0 =>
        /\ worker'.pc = "panicked"
        /\ Len(C22_Entries(sent')) = worker'.miscount
        /\ Len(C22_Entries(delivered')) <= worker'.miscount
        /\ consumer'.pc # "returned"
        /\ (consumer.pc = "join" /\ consumer'.pc # "join") => consumer'.pc = "panicked"

\* C24: once the node has returned a wrong number of blocks for a chunk, the
\* worker has panicked; what was sent and what reaches the callback are only
\* the headers before that chunk; each() never returns normally, and it leaves
\* join by panicking.
C24_WrongCountFatal == [][C24_Step]_vars

\* The node miscounted on the second chunk: the first batch went through the
\* callback, then each() panicked in join.
C24_Witness ==
    /\ worker.miscount = FetchChunkSize
    /\ worker.pc = "panicked"
    /\ consumer.pc = "panicked"
    /\ Len(delivered) = 1
    /\ delivered = sent
    /\ chan = << >>

C25_Step ==
    /\ delivered' = SubSeq(sent', 1, Len(delivered'))
    /\ consumer'.pc \in {"recv", "func", "join", "returned"} =>
          Len(sent') = Len(delivered') + Len(chan')
                       + (IF consumer'.pc = "func" THEN 1 ELSE 0)
    /\ consumer'.pc = "func" => consumer'.item = sent'[Len(delivered') + 1]
    /\ consumer'.pc = "returned" =>
          /\ chan' = << >>
          /\ delivered' = sent'
          /\ worker'.pc = "done"
    /\ consumer'.pc \in {"returned", "panicked"} => worker'.term

\* C25: the batches each() has passed to the callback are the batches the
\* worker sent, from the first on, in send order, each once; each() returns
\* only when the buffer is empty, every batch sent has been through the
\* callback, and the worker's closure has returned and its thread has ended;
\* when each() has ended, by return or by panic, no worker thread is left.
C25_EachDrainsAndJoins == [][C25_Step]_vars

\* each() has returned after two batches of two, the worker thread is gone.
C25_Witness ==
    /\ consumer.pc = "returned"
    /\ worker.term
    /\ Len(fetch_headers) = 4
    /\ Len(delivered) = 2
    /\ delivered = sent

\* ---------------------------------------------------------------------------
\* Properties of the rows of the two passes
\* ---------------------------------------------------------------------------
\* Keys of the rows every mode has to emit for a block, read off the block.
C26_CommonKeys(hash) ==
    LET txs == Range(NodeBlock(hash).txdata)
    IN  { << "B", hash >>, << "D", hash >> }
        \cup { << "C", tx.txid, hash >> : tx \in txs }
        \cup UNION { { << "O", tx.txid, k - 1 >> :
                       k \in {j \in 1..Len(tx.output) : tx.output[j].script_pubkey # 0} } :
                     tx \in txs }

C26_Step ==
    (up /\ pc["A"] = "add" /\ txstore' # txstore) =>
        LET emitted == {r.key : r \in txstore' \ txstore}
            batch == Range(blocks'["A"])
            txids == UNION { {tx.txid : tx \in Range(NodeBlock(h).txdata)} : h \in batch }
            with(codes) == {k \in emitted : k[1] \in codes}
        IN  /\ batch # {}
            /\ emitted = with({"C", "O", "B", "D", "T", "X", "M"})
            /\ with({"C", "O", "B", "D"}) = UNION { C26_CommonKeys(h) : h \in batch }
            /\ config.light_mode => with({"T", "X", "M"}) = {}
            /\ ~config.light_mode =>
                  /\ with({"T"}) = { << "T", t >> : t \in txids }
                  /\ Cardinality(with({"T"})) = Cardinality(txids)
                  /\ with({"X"}) = { << "X", h >> : h \in batch }
                  /\ with({"M"}) = { << "M", h >> : h \in batch }

\* C26: the rows an add batch writes have, in both modes, the same C, O, B and
\* D keys (those read off the blocks of the batch); with light_mode they have
\* no T, X or M key; without it they have in addition one T key per
\* transaction and one X and one M key per block of the batch.
C26_LightModeRows == [][C26_Step]_vars

\* A light-mode add batch of two blocks with three transactions: O rows and
\* no T row in txstore.
C26_Witness ==
    /\ up
    /\ config.light_mode
    /\ pc["A"] = "add"
    /\ Len(blocks["A"]) = 2
    /\ \E r \in txstore : r.key[1] = "O"
    /\ \A r \in txstore : r.key[1] \notin {"T", "X", "M"}

\* The bytes verify_compatibility expects under a configuration.
C27_Bytes(light) == IF light THEN << 1, 1 >> ELSE << 1 >>

C27_V(db) == {r.value : r \in {q \in db : q.key = << "V" >>}}

C27_Step ==
    /\ \A d \in {<< txstore, txstore' >>, << history, history' >>} :
          /\ C27_V(d[2]) # C27_V(d[1]) =>
                /\ ~up /\ up'
                /\ C27_V(d[1]) = {}
                /\ C27_V(d[2]) = {C27_Bytes(config.light_mode)}
          /\ (~up /\ up') =>
                /\ C27_V(d[1]) \subseteq {C27_Bytes(config.light_mode)}
                /\ C27_V(d[2]) = {C27_Bytes(config.light_mode)}
                /\ C27_V(d[1]) # {} => d[2] = d[1]
          /\ (~up /\ C27_V(d[1]) \notin {{}, {C27_Bytes(config.light_mode)}}) =>
                /\ ~up'
                /\ d[2] = d[1]

\* C27: in txstore and in history, V changes only in an open of a database
\* without V, which writes the bytes of the current configuration (the version,
\* plus one byte with light_mode); an open of a database with V succeeds only
\* when the stored bytes are those of the current configuration and then
\* leaves the database as it was; while the stored bytes differ from them, in
\* particular after light_mode was switched, no open succeeds and nothing is
\* written.
C27_CompatibilityBytes == [][C27_Step]_vars

\* A database created without light_mode and holding blocks was refused under
\* light_mode.
C27_Witness ==
    /\ ~up
    /\ last_exit = "incompatible"
    /\ config.light_mode
    /\ C27_V(txstore) = {<< 1 >>}
    /\ \E r \in txstore : r.key[1] = "D"

C28_Missing(db, outpoints) ==
    {o \in outpoints : \A r \in db : r.key # << "O", o.txid, o.vout >>}

\* The previous outpoints of the non-coinbase inputs of a set of blocks.
C28_PrevOuts(hashes) ==
    UNION { UNION { {i \in Range(NodeBlock(h).txdata[k].input) : i.txid # 0} :
                    k \in 1..Len(NodeBlock(h).txdata) } :
            h \in hashes }

C28_Step ==
    /\ lookup' # lookup =>
          LET m == C28_Missing(txstore, lookup'.outpoints)
          IN  /\ lookup'.st = "panic" <=> (~lookup'.allow_missing /\ m # {})
              /\ lookup'.st = "ok" =>
                    /\ DOMAIN lookup'.result = lookup'.outpoints \ m
                    /\ \A o \in DOMAIN lookup'.result :
                          DBRow(<< "O", o.txid, o.vout >>,
                                << lookup'.result[o].script_pubkey,
                                   lookup'.result[o].value >>) \in txstore
    /\ (up /\ pc["A"] = "index" /\ history' # history) =>
          C28_Missing(txstore, C28_PrevOuts(Range(blocks'["A"]))) = {}
    /\ (up /\ pc["A"] = "index" /\ to_index["A"] # << >>
           /\ C28_Missing(txstore, C28_PrevOuts({to_index["A"][1].hash})) # {}) =>
          /\ history' = history
          /\ up' => (pc'["A"] = "index" /\ to_index'["A"] = to_index["A"])

\* C28: lookup_txos panics exactly when allow_missing is false and an outpoint
\* has no O row, and otherwise returns the map of the outpoints that have a
\* row, with the row's output; the index pass writes a batch to history only
\* when every previous outpoint of the batch has an O row, and while the next
\* block to index has one without, it writes nothing and cannot advance
\* (the process ends).
C28_MissingTxoFatal == [][C28_Step]_vars

\* The txstore lost the O row of an output that an added, not yet indexed block
\* spends; the process ended in the index pass; a lookup that allowed missing
\* outpoints had returned a map without some of them.
C28_Witness ==
    /\ ~up
    /\ last_exit = "index"
    /\ \E h \in load_blockhashes(txstore, "D") \ load_blockhashes(history, "D") :
          C28_Missing(txstore, C28_PrevOuts({h})) # {}
    /\ lookup.st = "ok"
    /\ lookup.allow_missing
    /\ DOMAIN lookup.result # lookup.outpoints
    /\ DOMAIN lookup.result # {}

C29_Rows(db, code) ==
    {r \in db : r.key[1] = "H" /\ r.key[4] = code}

\* C29: every Spending row of history has a Funding row in history with the
\* same script hash and with (txid, vout) equal to the Spending row's previous
\* outpoint, at a height not above the Spending row's height.
C29_SpendingHasFunding ==
    \A s \in C29_Rows(history, "S") :
       \E f \in C29_Rows(history, "F") :
          /\ f.key[2] = s.key[2]
          /\ f.key[5] = s.key[7]
          /\ f.key[6] = s.key[8]
          /\ f.key[3] <= s.key[3]

\* History holds the Spending rows of two blocks, written by index batches,
\* and the Funding row of one of them lies strictly below its height.
C29_Witness ==
    /\ Cardinality(C29_Rows(history, "S")) >= 2
    /\ \E s \in C29_Rows(history, "S") :
          \E f \in C29_Rows(history, "F") :
             /\ f.key[2] = s.key[2]
             /\ f.key[5] = s.key[7]
             /\ f.key[6] = s.key[8]
             /\ f.key[3] < s.key[3]

C30_Funding(db) ==
    {r \in db : r.key[1] = "H" /\ r.key[4] = "F"}

C30_HasTxo(f) ==
    \E o \in txstore :
       /\ o.key = << "O", f.key[5], f.key[6] >>
       /\ compute_script_hash(o.value[1]) = f.key[2]
       /\ o.value[2] = f.key[7]

MaxRows == 3

starts_with(key, prefix) ==
    Len(prefix) <= Len(key) /\ SubSeq(key, 1, Len(prefix)) = prefix

RECURSIVE BytesLess(_, _)
BytesLess(a, b) ==
    IF a = << >> THEN b # << >>
    ELSE IF b = << >> THEN FALSE
    ELSE IF Head(a) # Head(b) THEN Head(a) < Head(b)
    ELSE BytesLess(Tail(a), Tail(b))

\* mutant: bincode::serialize of a u32 (fixed width, little-endian)
SerializeLittle(u) ==
    << u % 256, (u \div 256) % 256, (u \div 65536) % 256, (u \div 16777216) % 256 >>

\* bincode::options().with_big_endian() of an unsigned integer below 2^32:
\* the options keep the default variable-length integer encoding, one byte
\* below 251, the marker 251 and two bytes below 2^16, the marker 252 and
\* four bytes otherwise, the bytes after the marker big-endian.
SerializeBig(u) ==
    IF u < 251 THEN << u >>
    ELSE IF u < 65536 THEN << 251, u \div 256, u % 256 >>
    ELSE << 252, (u \div 16777216) % 256, (u \div 65536) % 256, (u \div 256) % 256,
            u % 256 >>

\* A FullHash stands for its 32 bytes; here one byte.
HashBytes(hash) == << hash >>

\* TxHistoryRow::into_row: code, hash, confirmed_height, then the txinfo enum
\* (variant index, txid, vout or vin, value).
TxHistoryKeyBytes(key) ==
    << 72 >> \o HashBytes(key.hash) \o SerializeBig(key.confirmed_height)
       \o SerializeBig(key.txinfo.variant) \o HashBytes(key.txinfo.txid)
       \o SerializeBig(key.txinfo.vout) \o SerializeBig(key.txinfo.value)

TxHistoryRowIntoRow(key) == DBRow(TxHistoryKeyBytes(key), << >>)

\* TxHistoryRow::prefix_height(code, hash, height)
prefix_height(hash, height) == << 72 >> \o HashBytes(hash) \o SerializeBig(height)

\* The rows of a database in the order of the bytewise comparator.
RECURSIVE KeyOrder(_)
KeyOrder(db) ==
    IF db = {} THEN << >>
    ELSE LET m == CHOOSE r \in db : \A o \in db : o = r \/ BytesLess(r.key, o.key)
         IN  << m >> \o KeyOrder(db \ {m})

\* mutant: the iterator starts at the first key of the database
SeekStart(rows, target) == 1

\* IteratorMode::From(target, Forward): the position of the first key >= target.
Seek(rows, target) ==
    IF \E i \in 1..Len(rows) : ~BytesLess(rows[i].key, target)
    THEN CHOOSE i \in 1..Len(rows) :
            /\ ~BytesLess(rows[i].key, target)
            /\ \A j \in 1..(i - 1) : BytesLess(rows[j].key, target)
    ELSE Len(rows) + 1

\* ScanIterator::next, called until it returns None.
RECURSIVE ScanIteratorRun(_, _, _)
ScanIteratorRun(rows, pos, prefix) ==
    IF pos > Len(rows) THEN << >>
    ELSE IF ~starts_with(rows[pos].key, prefix) THEN << >>
    ELSE << rows[pos] >> \o ScanIteratorRun(rows, pos + 1, prefix)

iter_scan(db, prefix) ==
    ScanIteratorRun(KeyOrder(db), Seek(KeyOrder(db), prefix), prefix)

iter_scan_from(db, prefix, start_at) ==
    ScanIteratorRun(KeyOrder(db), Seek(KeyOrder(db), start_at), prefix)

\* The raw iterator placed on the last key with the prefix (position 0: not
\* valid).
SeekLast(rows, prefix) ==
    IF \E i \in 1..Len(rows) : starts_with(rows[i].key, prefix)
    THEN CHOOSE i \in 1..Len(rows) :
            /\ starts_with(rows[i].key, prefix)
            /\ \A j \in (i + 1)..Len(rows) : ~starts_with(rows[j].key, prefix)
    ELSE 0

\* ReverseScanIterator::next, called until it returns None.
RECURSIVE ReverseScanIteratorRun(_, _, _)
ReverseScanIteratorRun(rows, pos, prefix) ==
    IF pos < 1 THEN << >>
    ELSE IF ~starts_with(rows[pos].key, prefix) THEN << >>
    ELSE << rows[pos] >> \o ReverseScanIteratorRun(rows, pos - 1, prefix)

reverse_iter_scan(db, prefix) ==
    ReverseScanIteratorRun(KeyOrder(db), SeekLast(KeyOrder(db), prefix), prefix)

\* Heights around the boundaries of the integer encoding.
SampleHeights == {0, 250, 251, 255, 256, 65535, 65536, 2147483647}

\* The TxHistoryKey values rows are written for: a Funding row per script
\* hash and height, and two Spending rows.
HistoryKeys ==
    { [hash |-> sh, confirmed_height |-> h,
       txinfo |-> [variant |-> 0, txid |-> 7, vout |-> 0, value |-> 50]] :
      sh \in {1, 2}, h \in SampleHeights }
    \cup { [hash |-> 1, confirmed_height |-> h,
            txinfo |-> [variant |-> 1, txid |-> 8, vout |-> 0, value |-> 50]] :
           h \in {0, 65536} }

\* Rows of other kinds before and after the history rows: a done marker and
\* an edge row.
OtherRows == { DBRow(<< 68, 1 >>, << >>), DBRow(<< 83, 7, 0, 0, 8, 0, 0 >>, << >>) }

ScanPrefixes == { << 72 >>, << 72, 1 >>, << 72, 2 >> }

InitScan ==
    /\ IndexerInit
    /\ config = [light_mode |-> FALSE, index_unspendables |-> FALSE]
    /\ DaemonQuiet
    /\ FetcherQuiet

NoScan == [op |-> "none", prefix |-> << >>, start_at |-> << >>, rows |-> << >>]

\* DB::write of the done marker, the edge row and one history row, or of one
\* more history row.  Each database is scanned once, by one of the scans.
WriteHistoryRow ==
    /\ Cardinality(kput) < MaxRows
    /\ \E key \in HistoryKeys \ kput :
          /\ kput' = kput \cup {key}
          /\ kdb' = DBWrite(kdb, OtherRows \cup {TxHistoryRowIntoRow(key)})
    /\ scan' = NoScan
    /\ UNCHANGED << ivars, dvars, walk, lookup, fetch_headers, worker, chan, consumer,
                    sent, delivered, orows, recvd, sndr >>

IterScanCall ==
    /\ kdb # {}
    /\ scan.op = "none"
    /\ \E prefix \in ScanPrefixes :
          scan' = [op |-> "iter_scan", prefix |-> prefix, start_at |-> << >>,
                   rows |-> iter_scan(kdb, prefix)]
    /\ UNCHANGED << ivars, dvars, walk, lookup, fetch_headers, worker, chan, consumer,
                    sent, delivered, kdb, kput, orows, recvd, sndr >>

IterScanFromCall ==
    /\ kdb # {}
    /\ scan.op = "none"
    /\ \E prefix \in ScanPrefixes, h \in SampleHeights :
          scan' = [op |-> "iter_scan_from", prefix |-> prefix,
                   start_at |-> prefix_height(1, h),
                   rows |-> iter_scan_from(kdb, prefix, prefix_height(1, h))]
    /\ UNCHANGED << ivars, dvars, walk, lookup, fetch_headers, worker, chan, consumer,
                    sent, delivered, kdb, kput, orows, recvd, sndr >>

ReverseIterScanCall ==
    /\ kdb # {}
    /\ scan.op = "none"
    /\ \E prefix \in ScanPrefixes :
          scan' = [op |-> "reverse_iter_scan", prefix |-> prefix, start_at |-> << >>,
                   rows |-> reverse_iter_scan(kdb, prefix)]
    /\ UNCHANGED << ivars, dvars, walk, lookup, fetch_headers, worker, chan, consumer,
                    sent, delivered, kdb, kput, orows, recvd, sndr >>

NextScan ==
    \/ WriteHistoryRow
    \/ IterScanCall
    \/ IterScanFromCall
    \/ ReverseIterScanCall

SpecScan == InitScan /\ [][NextScan]_vars

\* ------------------- Properties of the keys and scans of the database
C31_Key(row) == CHOOSE k \in kput : TxHistoryKeyBytes(k) = row.key

C31_Hashes == {k.hash : k \in HistoryKeys}

\* C31: of two written history rows with the same script hash, the one with
\* the smaller height has the bytewise smaller key; a forward scan of H{sh}
\* yields every written row of sh, heights non-decreasing, and a reverse scan
\* yields every one of them, heights non-increasing.
C31_HeightOrder ==
    /\ \A k1, k2 \in kput :
          (k1.hash = k2.hash /\ k1.confirmed_height < k2.confirmed_height) =>
             BytesLess(TxHistoryKeyBytes(k1), TxHistoryKeyBytes(k2))
    /\ \A sh \in C31_Hashes :
          (scan.op \in {"iter_scan", "reverse_iter_scan"}
              /\ scan.prefix = << 72 >> \o HashBytes(sh)) =>
             /\ {scan.rows[i].key : i \in 1..Len(scan.rows)} =
                   {TxHistoryKeyBytes(k) : k \in {x \in kput : x.hash = sh}}
             /\ \A i, j \in 1..Len(scan.rows) :
                   i < j =>
                      IF scan.op = "iter_scan"
                      THEN C31_Key(scan.rows[i]).confirmed_height
                              <= C31_Key(scan.rows[j]).confirmed_height
                      ELSE C31_Key(scan.rows[i]).confirmed_height
                              >= C31_Key(scan.rows[j]).confirmed_height

\* A reverse scan has yielded three rows of one script hash whose heights are
\* encoded in one, three and five bytes.
C31_Witness ==
    /\ scan.op = "reverse_iter_scan"
    /\ Len(scan.rows) = 3
    /\ C31_Key(scan.rows[1]).confirmed_height >= 65536
    /\ C31_Key(scan.rows[2]).confirmed_height \in 251..65535
    /\ C31_Key(scan.rows[3]).confirmed_height < 251

\* ------------------------------------------- the header list and reorgs
\* HeaderList::new on the headers of every block the node knows, from a tip
\* on the best chain (what Store::open does with the B rows and the t row).
LoadHeaders ==
    /\ up
    /\ \E tip_hash \in Hashes :
          indexed_headers' = HeaderListNew([h \in NodeHashes |-> NodeHeader(h)], tip_hash)
    /\ walk' = [st |-> "none", tip |-> NullHash, result |-> << >>]
    /\ UNCHANGED << dvars, kvars, lookup, fetch_headers, worker, chan, consumer, sent,
                    delivered, config, best, up, txstore, history, txstore_ac,
                    history_ac, added_blockhashes, indexed_blockhashes, pc, tip,
                    new_headers, to_add, to_index, blocks, ret, last_exit >>

\* Indexer::get_new_headers orders what the walk returned, and the tail of
\* update() applies it to the header list.
OrderAndApply ==
    /\ up
    /\ walk.st = "ok"
    /\ ~OrderFails(indexed_headers, walk.result)
    /\ ~ApplyFails(indexed_headers, Order(indexed_headers, walk.result))
    /\ indexed_headers' = Apply(indexed_headers, Order(indexed_headers, walk.result))
    /\ walk' = [walk EXCEPT !.st = "applied"]
    /\ UNCHANGED << dvars, kvars, lookup, fetch_headers, worker, chan, consumer, sent,
                    delivered, config, best, up, txstore, history, txstore_ac,
                    history_ac, added_blockhashes, indexed_blockhashes, pc, tip,
                    new_headers, to_add, to_index, blocks, ret, last_exit >>

NextReorg ==
    \/ LoadHeaders
    \/ GetNewHeaders
    \/ GetNewHeadersFails
    \/ OrderAndApply

SpecReorg == Init /\ [][NextReorg]_vars

C33_WithPrefix(db, prefix) == {r \in db : starts_with(r.key, prefix)}

C33_Ascending(rows) ==
    \A i \in 1..(Len(rows) - 1) : BytesLess(rows[i].key, rows[i + 1].key)

\* C33: iter_scan(prefix) yields in ascending key order exactly the rows whose
\* key starts with prefix; iter_scan_from(prefix, start_at) with a start_at
\* that starts with prefix yields in ascending key order exactly those of
\* them whose key is not below start_at.
C33_ForwardScans ==
    /\ scan.op = "iter_scan" =>
          /\ C33_Ascending(scan.rows)
          /\ Range(scan.rows) = C33_WithPrefix(kdb, scan.prefix)
    /\ (scan.op = "iter_scan_from" /\ starts_with(scan.start_at, scan.prefix)) =>
          /\ C33_Ascending(scan.rows)
          /\ Range(scan.rows) =
                {r \in C33_WithPrefix(kdb, scan.prefix) : ~BytesLess(r.key, scan.start_at)}

\* iter_scan_from has started inside the rows of its prefix: it yielded one
\* row and left out one with the prefix that lies below start_at, and a row
\* of another script hash follows in the database.
C33_Witness ==
    /\ scan.op = "iter_scan_from"
    /\ scan.prefix = << 72, 1 >>
    /\ starts_with(scan.start_at, scan.prefix)
    /\ Len(scan.rows) = 1
    /\ Cardinality(C33_WithPrefix(kdb, scan.prefix)) = 2
    /\ C33_WithPrefix(kdb, << 72, 2 >>) # {}

\* ------------------------------------- the rows of the index pass, counted
RECURSIVE Flatten(_)
Flatten(ss) == IF ss = << >> THEN << >> ELSE Head(ss) \o Flatten(Tail(ss))

\* mutant: every row is pushed twice
index_transaction_rows_twice(tx, confirmed_height, previous_txos_map, iconfig) ==
    LET once == Flatten([k \in 1..Len(tx.output) |->
                    IF is_spendable(tx.output[k]) \/ iconfig.index_unspendables
                    THEN << TxHistoryRowFunding(tx.output[k].script_pubkey,
                                                confirmed_height, tx.txid, k - 1,
                                                tx.output[k].value) >>
                    ELSE << >>])
    IN  once \o once

\* index_transaction as the vector of rows it pushes, in the order of the
\* pushes: the loop over the outputs, then the loop over the inputs.
index_transaction_rows(tx, confirmed_height, previous_txos_map, iconfig) ==
    Flatten([k \in 1..Len(tx.output) |->
                IF is_spendable(tx.output[k]) \/ iconfig.index_unspendables
                THEN << TxHistoryRowFunding(tx.output[k].script_pubkey, confirmed_height,
                                            tx.txid, k - 1, tx.output[k].value) >>
                ELSE << >>])
    \o Flatten([k \in 1..Len(tx.input) |->
                IF ~has_prevout(tx.input[k]) THEN << >>
                ELSE LET txi == tx.input[k]
                         prev_txo == previous_txos_map[txi]
                     IN  << TxHistoryRowSpending(prev_txo.script_pubkey,
                                                 confirmed_height, tx.txid, k - 1,
                                                 txi.txid, txi.vout, prev_txo.value),
                            TxEdgeRow(txi.txid, txi.vout, tx.txid, k - 1) >>])

C34_Count(rows, key) == Cardinality({i \in 1..Len(rows) : rows[i].key = key})

C34_TxRows(tx, height, rows) ==
    /\ \A j \in 1..Len(tx.output) :
          C34_Count(rows, << "H", << "sha256", tx.output[j].script_pubkey >>, height, "F",
                             tx.txid, j - 1, tx.output[j].value >>)
             = (IF tx.output[j].script_pubkey # 0 \/ config.index_unspendables
                THEN 1 ELSE 0)
    /\ \A j \in 1..Len(tx.input) :
          IF tx.input[j].txid # 0
          THEN /\ C34_Count(rows, << "H", << "sha256", PrevOutput(tx.input[j]).script_pubkey >>,
                                     height, "S", tx.txid, j - 1, tx.input[j].txid,
                                     tx.input[j].vout, PrevOutput(tx.input[j]).value >>) = 1
               /\ C34_Count(rows, << "S", tx.input[j].txid, tx.input[j].vout,
                                     tx.txid, j - 1 >>) = 1
          ELSE \A i \in 1..Len(rows) :
                  /\ (rows[i].key[1] = "H" /\ rows[i].key[4] = "S") => rows[i].key[6] # j - 1
                  /\ rows[i].key[1] = "S" => rows[i].key[5] # j - 1
    /\ Len(rows) =
          Cardinality({j \in 1..Len(tx.output) :
                         tx.output[j].script_pubkey # 0 \/ config.index_unspendables})
          + 2 * Cardinality({j \in 1..Len(tx.input) : tx.input[j].txid # 0})

C34_Step ==
    (up /\ up' /\ pc["A"] = "index" /\ to_index'["A"] # to_index["A"]) =>
       LET n == Len(blocks'["A"])
           block_entries == BlockEntries(SubSeq(to_index["A"], 1, n))
           previous_txos_map == lookup_txos(txstore, get_previous_txos(block_entries))
       IN  \A k \in 1..n :
              LET b == block_entries[k]
              IN  /\ b.entry.hash = blocks'["A"][k]
                  /\ \A t \in 1..Len(b.block.txdata) :
                        LET rows == index_transaction_rows(b.block.txdata[t], b.entry.height,
                                                           previous_txos_map, config)
                        IN  /\ C34_TxRows(b.block.txdata[t], b.entry.height, rows)
                            /\ Range(rows) \subseteq history'
                            /\ Range(rows) = index_transaction(b.block.txdata[t],
                                                b.entry.height, previous_txos_map, config)
                  /\ {r \in index_block(b, previous_txos_map, config) : r.key[1] = "D"}
                        = {DBRow(<< "D", b.entry.hash >>, << >>)}
                  /\ DBRow(<< "D", b.entry.hash >>, << >>) \in history'

\* C34: for every transaction of a block of an index batch, index_transaction
\* pushes exactly one Funding row for each output that is spendable (for each
\* output under index_unspendables), exactly one Spending row and one edge row
\* for each input with a previous output, nothing for a coinbase input and no
\* other row; the batch written to history holds these rows and the one D row
\* of each block.
C34_IndexRows == [][C34_Step]_vars

\* Under index_unspendables an index batch has written the rows of a block
\* with a coinbase transaction and a transaction that spends an output and
\* has an unspendable output.
C34_Witness ==
    /\ up
    /\ config.index_unspendables
    /\ pc["A"] = "index"
    /\ blocks["A"] # << >>
    /\ \E k \in 1..Len(blocks["A"]) :
          /\ blocks["A"][k] # HashAt(0)
          /\ DBRow(<< "D", blocks["A"][k] >>, << >>) \in history
          /\ \E r \in history :
                /\ r.key[1] = "H"
                /\ r.key[3] = blocks["A"][k] - 1
                /\ r.key[4] = "S"

\* ------------------------------------------ Indexer::index on any batch
\* A caller ("B") holds a batch of consecutive blocks of the best chain,
\* added or not, to pass to Indexer::index.
HandBatch ==
    /\ up
    /\ pc["A"] = "idle"
    /\ pc["B"] = "idle"
    /\ \E first \in 0..best, n \in 1..MaxBatch :
          /\ first + n - 1 <= best
          /\ to_index' = [to_index EXCEPT !["B"] =
                            [k \in 1..n |-> HeaderEntry(first + k - 1,
                                                        NodeHeader(HashAt(first + k - 1)))]]
    /\ pc' = [pc EXCEPT !["B"] = "handed"]
    /\ UNCHANGED << dvars, fvars, config, best, up, txstore, history, txstore_ac,
                    history_ac, added_blockhashes, indexed_blockhashes, indexed_headers,
                    tip, new_headers, to_add, blocks, ret, last_exit >>

\* Indexer::index(blocks) on the batch held: lookup_txos, then the test of
\* added_blockhashes, then the write to history.  A panic ends the process.
IndexHanded ==
    /\ up
    /\ pc["B"] = "handed"
    /\ LET block_entries == BlockEntries(to_index["B"])
           previous_txos_map == lookup_txos(txstore, get_previous_txos(block_entries))
       IN  IF IndexPanics(block_entries)
           THEN /\ up' = FALSE
                /\ txstore_ac' = FALSE
                /\ history_ac' = FALSE
                /\ added_blockhashes' = {}
                /\ indexed_blockhashes' = {}
                /\ indexed_headers' = HeaderListEmpty
                /\ pc' = [i \in Indexers |-> "idle"]
                /\ tip' = [i \in Indexers |-> NullHash]
                /\ new_headers' = [i \in Indexers |-> << >>]
                /\ to_add' = [i \in Indexers |-> << >>]
                /\ to_index' = [i \in Indexers |-> << >>]
                /\ blocks' = [i \in Indexers |-> << >>]
                /\ ret' = [i \in Indexers |-> None]
                /\ last_exit' =
                      IF lookup_txos_panics(txstore, get_previous_txos(block_entries), FALSE)
                      THEN "missing txo"
                      ELSE "not added"
                /\ UNCHANGED << dvars, fvars, config, best, txstore, history >>
           ELSE /\ history' = DBWrite(history,
                                index_blocks(block_entries, previous_txos_map, config))
                /\ blocks' = [blocks EXCEPT !["B"] = EntryHashes(to_index["B"])]
                /\ to_index' = [to_index EXCEPT !["B"] = << >>]
                /\ pc' = [pc EXCEPT !["B"] = "idle"]
                /\ UNCHANGED << dvars, fvars, config, best, up, txstore, txstore_ac,
                                history_ac, added_blockhashes, indexed_blockhashes,
                                indexed_headers, tip, new_headers, to_add, ret,
                                last_exit >>

\* One Indexer that updates and is never killed, in full mode, and calls of
\* index on any batch.
InitIndexAny ==
    /\ Init
    /\ config = [light_mode |-> FALSE, index_unspendables |-> FALSE]

NextIndexAny ==
    \/ UpdateStart("A")
    \/ AddBatch("A")
    \/ AddDone("A")
    \/ IndexBatch("A")
    \/ Finish("A")
    \/ NodeMine
    \/ StoreOpen
    \/ HandBatch
    \/ IndexHanded

SpecIndexAny == InitIndexAny /\ [][NextIndexAny]_vars

C35_NotAdded(entries) ==
    \E k \in 1..Len(entries) : entries[k].hash \notin added_blockhashes

\* C35: index on a batch with a block outside added_blockhashes ends the
\* process and leaves history as it was; a batch is written to history only
\* if all its blocks are in added_blockhashes, whoever calls index; and every
\* D marker of history is the D marker of a block with a D marker in txstore.
C35_Step ==
    /\ (up /\ pc["B"] = "handed" /\ C35_NotAdded(to_index["B"])) =>
          /\ history' = history
          /\ pc'["B"] # "handed" => ~up'
    /\ (up /\ history' # history) =>
          load_blockhashes(history', "D") \ load_blockhashes(history, "D")
             \subseteq added_blockhashes
    /\ load_blockhashes(history', "D") \subseteq load_blockhashes(txstore', "D")

C35_IndexRefusesNotAdded == [][C35_Step]_vars

\* index was called on a batch whose first block was added and whose second
\* was not: every previous output was found, the test of added_blockhashes
\* ended the process, and history has no D marker of either block.
C35_Witness ==
    /\ ~up
    /\ last_exit = "not added"
    /\ HashAt(0) \in load_blockhashes(txstore, "D")
    /\ HashAt(1) \notin load_blockhashes(txstore, "D")
    /\ load_blockhashes(history, "D") = {}

\* C36: in every batch the worker has sent, and in every batch passed to the
\* callback, each BlockEntry holds the block whose hash is the hash of its
\* header entry.
C36_EntryMatchesBlock ==
    \A q \in {sent, delivered} :
       \A i \in 1..Len(q) :
          \A k \in 1..Len(q[i]) :
             block_hash(q[i][k].block.header) = q[i][k].entry.hash

\* ------------------------------------------- O rows as bytes, DB::write
\* bincode::serialize of a u16 (fixed width, little-endian)
SerializeU16(u) == << u % 256, u \div 256 >>

\* TxOutRow::key(outpoint): code, txid, outpoint.vout as u16.
TxOutKeyBytes(outpoint) ==
    << 79 >> \o HashBytes(outpoint.txid) \o SerializeU16(U16(outpoint.vout))

\* TxOutRow::new(txid, vout, txout).into_row(): the key with vout as u16, the
\* value the serialized output (here its value and its script).
TxOutRowIntoRow(txid, vout, txout) ==
    DBRow(<< 79 >> \o HashBytes(txid) \o SerializeU16(U16(vout)),
          << txout.value, txout.script_pubkey >>)

\* Output indices around 2^16.
SampleVouts == {0, 1, 65535, 65536, 65537}

\* The output at an index of a transaction with more than 2^16 outputs; the
\* outputs at the sample indices are spendable.
SampleTxOut(vout) == [script_pubkey |-> 1 + (vout % 200), value |-> 50]

\* The order of the puts of DB::write: rows.sort_unstable_by(key), which may
\* put rows with equal keys in any order.  The orders are given as
\* permutations of the positions of the vector.
SortUnstableByKey(rows) ==
    { p \in [1..Len(rows) -> 1..Len(rows)] :
        /\ \A i, j \in 1..Len(rows) : i # j => p[i] # p[j]
        /\ \A i \in 1..(Len(rows) - 1) : ~BytesLess(rows[p[i + 1]].key, rows[p[i]].key) }

\* WriteBatch::put of the rows in an order, applied to the database at once.
RECURSIVE PutAll(_, _, _)
PutAll(db, rows, order) ==
    IF order = << >> THEN db
    ELSE PutAll(DBPut(db, rows[Head(order)].key, rows[Head(order)].value), rows,
                Tail(order))

\* DB::write(rows, flush): what the database may hold afterwards.
DBWriteVec(db, rows) == { PutAll(db, rows, p) : p \in SortUnstableByKey(rows) }

\* The add pass writes the O rows of a transaction: add_transaction pushes
\* them in the order of the output indices, DB::write sorts and writes them.
RECURSIVE AscendingSeq(_)
AscendingSeq(S) ==
    IF S = {} THEN << >>
    ELSE LET m == CHOOSE x \in S : \A y \in S : x <= y
         IN  << m >> \o AscendingSeq(S \ {m})

WriteOutputs ==
    /\ Cardinality(kdb) < MaxRows
    /\ \E txid \in {7, 8}, S \in SUBSET SampleVouts :
          /\ S # {}
          /\ Cardinality(S) <= MaxRows
          /\ LET vouts == AscendingSeq(S)
                 rows == [k \in 1..Len(vouts) |->
                            TxOutRowIntoRow(txid, vouts[k], SampleTxOut(vouts[k]))]
             IN  /\ orows' = [txid |-> txid, vouts |-> vouts, rows |-> rows]
                 /\ \E db \in DBWriteVec(kdb, rows) : kdb' = db
    /\ UNCHANGED << ivars, dvars, walk, lookup, fetch_headers, worker, chan, consumer,
                    sent, delivered, kput, scan, recvd, sndr >>

NextOutKeys ==
    \/ WriteOutputs

SpecOutKeys == InitScan /\ [][NextOutKeys]_vars

C37_Step ==
    orows' # orows =>
       /\ \A k \in 1..Len(orows'.rows) : orows'.rows[k] \in kdb'
       /\ \A r \in kdb' : r \in kdb \/ r \in Range(orows'.rows)
       /\ \A r \in kdb :
             r \in kdb' \/ \E k \in 1..Len(orows'.rows) : orows'.rows[k].key = r.key

\* C37: after DB::write the database holds every row of the vector with its
\* value, everything else as before, and so the same contents for every order
\* of the vector and of the puts.
C37_WriteAllRows == [][C37_Step]_vars

\* C39: the rows made for two different output indices of a transaction have
\* different keys, and the key of the row made for output index i is the key
\* TxOutRow::key gives for the outpoint (txid, i).
C39_DistinctKeys ==
    /\ \A i, j \in 1..Len(orows.vouts) :
          orows.vouts[i] # orows.vouts[j] => orows.rows[i].key # orows.rows[j].key
    /\ \A i \in 1..Len(orows.vouts) :
          orows.rows[i].key = TxOutKeyBytes([txid |-> orows.txid, vout |-> orows.vouts[i]])

\* --------------------------------- Connection::recv, the length comparison
MaxContentLength == 8

\* contents_length - 1 on a usize: below 1 the subtraction overflows, which
\* panics in a build with overflow checks and wraps to usize::MAX in one
\* without.  usize::MAX is beyond the integers of the checker; the largest of
\* them stands for it, and no body of the model is that long.
UsizeSubOne(n) ==
    IF n >= 1
    THEN {[panic |-> FALSE, wrapped |-> FALSE, val |-> n - 1]}
    ELSE {[panic |-> TRUE, wrapped |-> FALSE, val |-> 0],
          [panic |-> FALSE, wrapped |-> TRUE, val |-> 2147483647]}

\* The Content-Length header of a response: absent, not a number, a number.
HeaderValues ==
    {[kind |-> "absent", val |-> 0], [kind |-> "junk", val |-> 0]}
    \cup {[kind |-> "number", val |-> n] : n \in 0..MaxContentLength}

\* mutant: the trailing end of line is not subtracted
RecvFramedNoEol(content_length, body) ==
    IF body = None THEN {[outcome |-> "Connection", wrapped |-> FALSE]}
    ELSE IF content_length.kind # "number"
    THEN {[outcome |-> "Msg", wrapped |-> FALSE]}
    ELSE {[outcome |-> IF content_length.val # body[1] THEN "Connection" ELSE "Ok",
           wrapped |-> FALSE]}

\* Connection::recv from the end of the line loop on, for a response with
\* status "HTTP/1.1 200 OK"; the body line is absent (None) or has a length.
RecvFramed(content_length, body) ==
    IF body = None THEN {[outcome |-> "Connection", wrapped |-> FALSE]}
    ELSE IF content_length.kind # "number"
    THEN {[outcome |-> "Msg", wrapped |-> FALSE]}
    ELSE {[outcome |-> IF e.panic THEN "panic"
                       ELSE IF e.val # body[1] THEN "Connection" ELSE "Ok",
           wrapped |-> e.wrapped] : e \in UsizeSubOne(content_length.val)}

\* One call of Connection::recv; a panic ends the thread.
RecvCall ==
    /\ recvd.outcome # "panic"
    /\ \E content_length \in HeaderValues,
          body \in {None} \cup {Some(n) : n \in 0..MaxContentLength} :
          \E r \in RecvFramed(content_length, body) :
             recvd' = [content_length |-> content_length, body |-> body,
                       outcome |-> r.outcome, wrapped |-> r.wrapped]
    /\ UNCHANGED << ivars, dvars, walk, lookup, fetch_headers, worker, chan, consumer,
                    sent, delivered, kdb, kput, scan, orows, sndr >>

NextRecv ==
    \/ RecvCall

SpecRecv == InitScan /\ [][NextRecv]_vars

\* C38: on a response with a body line and a number as Content-Length, recv
\* returns the body if the body is as long as Content-Length less one and a
\* Connection error otherwise, and for no such response does it panic or
\* compare with a wrapped length.
C38_RecvLength ==
    (recvd.outcome # "none" /\ recvd.body # None /\ recvd.content_length.kind = "number") =>
       /\ recvd.outcome \in {"Ok", "Connection"}
       /\ ~recvd.wrapped
       /\ recvd.outcome = "Ok" <=> recvd.body[1] = recvd.content_length.val - 1
\* ------------------------------------------------- SyncChannel::sender
\* Frames of sender() the stack of the calling thread has room for.
MaxStack == 120

\* bitcoind_fetcher, lines 64-66: the daemon is reconnected, the channel made
\* and chan.sender() called.
SenderCall ==
    /\ sndr.st = "idle"
    /\ sndr' = [st |-> "calling", frames |-> 1]
    /\ UNCHANGED << ivars, dvars, walk, lookup, fetch_headers, worker, chan, consumer,
                    sent, delivered, kdb, kput, scan, orows, recvd >>

\* sender(), line 43: the body evaluates self.sender() before anything else,
\* so every frame calls sender() again.
SenderRecurse ==
    /\ sndr.st = "calling"
    /\ sndr.frames < MaxStack
    /\ sndr' = [sndr EXCEPT !.frames = @ + 1]
    /\ UNCHANGED << ivars, dvars, walk, lookup, fetch_headers, worker, chan, consumer,
                    sent, delivered, kdb, kput, scan, orows, recvd >>

\* The stack is full: the next call hits the guard page and the process is
\* aborted.
SenderOverflow ==
    /\ sndr.st = "calling"
    /\ sndr.frames = MaxStack
    /\ sndr' = [sndr EXCEPT !.st = "aborted"]
    /\ UNCHANGED << ivars, dvars, walk, lookup, fetch_headers, worker, chan, consumer,
                    sent, delivered, kdb, kput, scan, orows, recvd >>

\* No frame of sender() reaches .clone() or a return: the call it waits for
\* never returns, so the model has no action that sets sndr.st to "returned".
NextSender ==
    \/ SenderCall
    \/ SenderRecurse
    \/ SenderOverflow

SpecSender == InitScan /\ [][NextSender]_vars /\ WF_vars(NextSender)

\* C40: a call of chan.sender() returns (and bitcoind_fetcher goes on to
\* Fetcher::from with the sender in the worker's closure).
C40_SenderReturns == (sndr.st = "calling") ~> (sndr.st = "returned")

====
